---- MODULE Spec2Model ----
(***************************************************************************)
(* Verification model of the gateway protocol client of the-reef.          *)
(*                                                                         *)
(*  - the reconnecting GatewayClient (src/unnamed/part_001, lines 291-539) *)
(*    : connection, handshake, reconnection, request/response correlation, *)
(*    status and event listeners                                           *)
(*  - the event normalizer (src/src/main/event-parser.ts) and an action    *)
(*    collection keyed by the id it produces                               *)
(*  - the plain GatewayClient of src/src/main/gateway-client.ts            *)
(*                                                                         *)
(* JavaScript runs every callback to completion, so every handler is one   *)
(* atomic action.  The WebSocket library and the server are the            *)
(* environment: they open sockets, deliver frames, raise 'error' and       *)
(* 'close' events and let timers fire, in any order the library allows.    *)
(***************************************************************************)
EXTENDS Integers, Sequences, FiniteSets, TLC

(* ------------------------------ bounds -------------------------------- *)
MaxSockets == 2      \* sockets one client instance creates in a run
MaxLog == 3          \* statuses the recording status listener keeps
MaxReq == 2          \* request() calls that register a pending entry
ListenSockets == 1   \* sockets created in the runs a status listener records
ReqSockets == 1      \* sockets created in the runs with MaxReq requests
LateReq == 1         \* request() calls in the runs with MaxSockets sockets
MainSockets == 1     \* sockets the client of src/main/gateway-client.ts creates
MainIds == 3         \* ids that client draws from its requestId counter
MaxSeq == 3          \* events the gateway pushes to the reconciler
MaxClock == 2        \* milliseconds Date.now() may read, from 0
MaxListeners == 2    \* callbacks registered with onEvent()
MaxEvents == 2       \* event frames the gateway pushes to one client
DispatchSockets == 1 \* sockets created in the runs that dispatch events
MaxSubscribers == 2  \* callbacks registered with onConnectionChange()
MaxBlocks == 2       \* blocks in the content list of a chat message
MaxKey == 4          \* symbols of the arbitrary strings given to parseSessionKey
MaxListings == 2     \* bulk session listings the renderer receives
MaxTokens == 2       \* output tokens a listed session reports
MaxSessions == 2     \* sessions in one listing
MaxChunks == 2       \* output chunks a process may keep (its chunk cap)
MaxRegistrations == 4 \* onEvent() calls of one client

Sockets == 1..MaxSockets   \* MaxSockets is the largest socket bound
ReqIds == 1..MaxReq
MSockets == 1..MainSockets
MIds == 1..MainIds
ClockReadings == 0..MaxClock
Listeners == 1..MaxListeners

(* close codes of the 'close' event: 1000 is the clean one *)
CleanClose == 1000
AbnormalCode == CleanClose + 6   \* 1006, the code of a close without a close frame
CloseCodes == {CleanClose, AbnormalCode}

VARIABLES
  (* --- reconnecting GatewayClient, part_001:292-299 and 306-309 --- *)
  urlValid,        \* new WebSocket(this.url) accepts the url given to the constructor
  ws,              \* this.ws: 0 is null, else the socket it refers to
  connected,       \* this._connected
  connecting,      \* this._connecting
  reconnectTimer,  \* this.reconnectTimer is non-null
  (* --- one entry per connect() attempt that created a socket --- *)
  nSockets,        \* sockets created so far
  rs,              \* state of each socket (readyState and what it may still emit)
  timeout,         \* the attempt's handshake setTimeout is armed
  connectPromise,  \* the promise returned by the connect() call of the attempt
  (* --- the server's side of each socket --- *)
  challenged,      \* the server has sent connect.challenge on the socket
  connectSent,     \* connect Requests sent on the socket and not yet answered
  reqOut,          \* request n was sent and the server has not answered it yet
  (* --- timers of the event loop --- *)
  timersPending,   \* live reconnect setTimeout callbacks
  (* --- observers --- *)
  statusListeners, \* this.statusListeners: what each registered callback does when called
  statusLog,       \* first MaxLog calls each of them received
  lastStatus,      \* the status the listeners received last ("none" before the first)
  emits,           \* history: the statuses the latest handler broadcast, in order
  (* --- history of the connection, read by the properties only --- *)
  recording,       \* the groups of history variables that are tracked
  scen,            \* position in the plain handshake run connect/open/challenge/hello-ok
  hs,              \* the socket has itself received hello-ok
  collapsed,       \* what a connect() call made during the attempt was settled with
  autoAttempts,    \* connect attempts started by the reconnect timer
  closures,        \* close events, code # 1000, that ended an established connection
  lastClose,       \* what the most recent close event did
  (* --- request/response correlation, part_001:293-294 --- *)
  requestId,       \* this.requestId
  pendingRequests, \* keys of this.pendingRequests ("req-<n>" is n)
  caller,          \* the promise returned by the request() call that got id n
  reqTimer,        \* the 30 s setTimeout of request n is armed
  reqSock,         \* the socket request n was sent on
  (* --- which component the run exercises --- *)
  component,       \* "reconnecting", "main", "reconciler", "normalizer", "content", "keys",
                   \* "listing", "ordering", "parentage", "exec" or "handles"
  (* --- GatewayClient of src/main/gateway-client.ts:58-65 --- *)
  mWs,             \* this.ws: 0 is null, else the socket it refers to
  mConnected,      \* this.connected
  mRequestId,      \* this.requestId
  mPending,        \* keys of this.pendingRequests
  mEntry,          \* whose callbacks key n holds: 0 a request(), s the connect() of socket s
  mNSockets,       \* sockets created so far
  mRs,             \* state of each socket
  mTimeout,        \* the 10 s setTimeout of the connect() call is armed
  mConnectPromise, \* the promise returned by the connect() call
  mFirst,          \* onFirstMessage is a 'message' listener of the socket
  mRaw,            \* handleRawMessage listeners registered on the socket
  mChallenged,     \* the server has sent connect.challenge on the socket
  mAwait,          \* frame n was sent and the server has not answered it yet
  mSock,           \* this.ws when id n was drawn
  mCaller,         \* the promise returned by the request() call that got id n
  mReqTimer,       \* the 30 s setTimeout of request n is armed
  (* --- the reconciler's action collection --- *)
  actions,         \* the records of the collection, one per id
  seq,             \* events pushed so far
  (* --- one call of parseEventFrame --- *)
  input,           \* the frame the call is given, with the run and seq it names
  parsed,          \* history: what the call did with it
  partial,         \* history: the session partial of the ParsedEvent it returned
  (* --- event dispatch of the client the run exercises (part_001:295,     *)
  (*     gateway-client.ts:63) --- *)
  eventListeners,  \* this.eventListeners: the registered callbacks, in array order
  evSeq,           \* event frames received so far: the next one is frame evSeq + 1
  calls,           \* history: the listener calls of the latest dispatch, in order
  runSessionMap,   \* this.runSessionMap (part_001:302): the sessionKey learned per runId
  handed           \* history: the frame the listeners were last called with (OtherEvent
                   \* before the first call)

connVars == <<urlValid, recording, ws, connected, connecting, reconnectTimer, nSockets, rs, timeout,
              connectPromise, timersPending, statusListeners, statusLog, lastStatus,
              emits, scen, hs,
              challenged, connectSent, reqOut, collapsed, autoAttempts, closures,
              lastClose>>

serverVars == <<challenged, connectSent, reqOut>>

mainVars == <<mWs, mConnected, mRequestId, mPending, mEntry, mNSockets, mRs, mTimeout,
              mConnectPromise, mFirst, mRaw, mChallenged, mAwait, mSock, mCaller,
              mReqTimer>>

storeVars == <<actions, seq, input, parsed, partial>>

eventVars == <<eventListeners, evSeq, calls, runSessionMap, handed>>

(* what no handler of the connection changes: the construction arguments, *)
(* the listener registered before connect(), the event listeners and the   *)
(* other components                                                        *)
setup == <<statusListeners, recording, urlValid, component, mainVars, storeVars, eventVars>>

connVarsButScen == <<ws, connected, connecting, reconnectTimer, nSockets, rs, timeout,
                     connectPromise, timersPending, hs,
                     serverVars, collapsed, autoAttempts, closures, lastClose>>

reqVars == <<requestId, pendingRequests, caller, reqTimer, reqSock>>

vars == <<connVars, reqVars, component, mainVars, storeVars, eventVars>>

(* ------------------------------ promises ------------------------------ *)
Pending == [st |-> "pending", val |-> "none"]
Resolved(v) == [st |-> "resolved", val |-> v]
Rejected(e) == [st |-> "rejected", val |-> e]

(* A promise is settled once: resolve/reject of a settled promise is a no-op *)
Settle(p, outcome) == IF p.st = "pending" THEN outcome ELSE p

(* the tracked value of a history variable of a group that is recorded *)
Hist(group, new, old) == IF group \in recording THEN new ELSE old

(* the text of an Error, kept apart only where the messages are observed *)
Message(text) == IF "messages" \in recording THEN text ELSE "error"

(* A request timer whose entry is gone stays armed and its callback does   *)
(* nothing (part_001:474, gateway-client.ts:195): it is tracked only where *)
(* the timers are observed                                                 *)
Stale(armed) == "timers" \in recording /\ armed

NoCall == [st |-> "nocall", val |-> "none"]

(* what a registered callback does when it is called *)
Returns == [does |-> "returns", whom |-> 0]
Throws == [does |-> "throws", whom |-> 0]

(* the outcome of a request(): `from` is the id of the frame whose content  *)
(* settled it, `what` the part of that frame the caller received            *)
ReqIdle == [st |-> "idle", from |-> 0, what |-> "none"]
ReqPending == [st |-> "pending", from |-> 0, what |-> "none"]
ReqResolved(id, part) == [st |-> "resolved", from |-> id, what |-> part]
ReqRejected(id, why) == [st |-> "rejected", from |-> id, what |-> why]

(* ------------------------------ frames -------------------------------- *)
(* Response frames the server may send.  id 0 stands for the id of the     *)
(* handshake's connect Request ("connect-<ms>"), n > 0 for "req-<n>".       *)
(*   hello    ok:true,  payload.type = 'hello-ok'                          *)
(*   data     ok:true,  any other payload                                  *)
(*   error    ok:false, error.message present                              *)
(*   failure  ok:false, no error.message                                   *)
ResKinds == {"hello", "data", "error", "failure"}
ResFrames == [id : 0..MaxReq, kind : ResKinds]
FrameOk(f) == f.kind \in {"hello", "data"}

(* ------------------------------ initial state ------------------------- *)
InitClient ==
  /\ urlValid \in BOOLEAN
  /\ ws = 0
  /\ connected = FALSE
  /\ connecting = FALSE
  /\ reconnectTimer = FALSE
  /\ nSockets = 0
  /\ rs = [s \in Sockets |-> "none"]
  /\ timeout = [s \in Sockets |-> FALSE]
  /\ connectPromise = [s \in Sockets |-> Pending]
  /\ timersPending = 0
  /\ lastStatus = "none"
  /\ emits = <<>>
  /\ scen = "init"
  /\ hs = [s \in Sockets |-> FALSE]
  /\ challenged = [s \in Sockets |-> FALSE]
  /\ connectSent = [s \in Sockets |-> 0]
  /\ reqOut = [i \in ReqIds |-> FALSE]
  /\ collapsed = [s \in Sockets |-> NoCall]
  /\ autoAttempts = 0
  /\ closures = 0
  /\ lastClose = [sock |-> 0, code |-> 0, scheduled |-> FALSE]

(* part_001:512-514 onConnectionChange(cb), called for the callbacks cbs   *)
(* before connect()                                                        *)
InitStatus(cbs) ==
  /\ statusListeners = cbs
  /\ statusLog = [i \in DOMAIN cbs |-> <<>>]

InitReq ==
  /\ requestId = 0
  /\ pendingRequests = {}
  /\ caller = [i \in ReqIds |-> ReqIdle]
  /\ reqTimer = [i \in ReqIds |-> FALSE]
  /\ reqSock = [i \in ReqIds |-> 0]


(* ------------------------------ emitStatus ---------------------------- *)
(* part_001:537: for (const cb of this.statusListeners) cb(status), with   *)
(* no try around the call: listener i is reached if no listener before it  *)
(* throws                                                                  *)
Reached(i) == \A j \in 1..(i - 1) : statusListeners[j] # Throws

(* a listener throws: the loop of emitStatus, and the function that        *)
(* called emitStatus, end there                                            *)
ListenerThrows == \E i \in DOMAIN statusListeners : statusListeners[i] = Throws

Record(log, status) ==
  [i \in DOMAIN log |->
     IF Reached(i) /\ Len(log[i]) < MaxLog THEN Append(log[i], status) ELSE log[i]]

Last(status) == IF statusListeners # <<>> THEN status ELSE lastStatus

(* part_001:536-538 emitStatus, called once or twice by a handler *)
emitStatus(status) ==
  /\ statusLog' = Record(statusLog, status)
  /\ lastStatus' = Last(status)
  /\ emits' = Hist("status", <<status>>, emits)
  /\ UNCHANGED setup

emitStatusTwice(first, second) ==
  /\ statusLog' = Record(Record(statusLog, first), second)
  /\ lastStatus' = Last(second)
  /\ emits' = Hist("status", <<first, second>>, emits)
  /\ UNCHANGED setup

(* a handler that broadcasts nothing *)
emitNothing ==
  /\ emits' = Hist("status", <<>>, emits)
  /\ UNCHANGED <<setup, statusLog, lastStatus>>

(* ws.close(): CONNECTING aborts the handshake, OPEN starts the closing    *)
(* handshake (frames still arrive until 'close'), otherwise nothing        *)
CloseOf(st) ==
  CASE st = "connecting" -> "aborting"
    [] st = "open" -> "closing"
    [] OTHER -> st

wsClose(sockets, w) == IF w = 0 THEN sockets ELSE [sockets EXCEPT ![w] = CloseOf(sockets[w])]

(* resolve/reject of the promise returned by the connect() call of attempt s *)
settleConnect(s, outcome) ==
  connectPromise' = Hist("promises", [connectPromise EXCEPT ![s] = Settle(@, outcome)], connectPromise)

(* ------------------------------ connect() ----------------------------- *)
(* part_001:314-316: a call made while connecting or connected returns a   *)
(* fabricated HelloOk at once and touches nothing                          *)
connectCollapsed ==
  /\ connecting \/ connected
  /\ collapsed' = Hist("promises", IF connecting
                       THEN [collapsed EXCEPT ![nSockets] = Resolved("fabricated-hello")]
                       ELSE collapsed, collapsed)
  /\ scen' = Hist("scenario", "off", scen)
  /\ emitNothing
  /\ UNCHANGED <<ws, connected, connecting, nSockets, rs, timeout, connectPromise,
                 hs, serverVars>>

(* part_001:317-318: a status listener throws when it is told            *)
(* 'connecting': connect() ends there, rejected, with _connecting set and  *)
(* no socket and no timeout created.  Every other handler of the           *)
(* connection belongs to a socket, so it only runs when no listener throws *)
connectListenerThrows ==
  /\ ~(connecting \/ connected)
  /\ ListenerThrows
  /\ connecting' = TRUE
  /\ emitStatus("connecting")
  /\ scen' = Hist("scenario", "off", scen)
  /\ UNCHANGED <<ws, connected, nSockets, rs, timeout, connectPromise, hs,
                 serverVars, collapsed>>

(* part_001:317-336: new WebSocket(url) throws: the attempt fails at once  *)
connectThrows ==
  /\ ~(connecting \/ connected)
  /\ ~ListenerThrows
  /\ ~urlValid
  /\ connecting' = FALSE
  /\ emitStatusTwice("connecting", "error")
  /\ scen' = Hist("scenario", "off", scen)
  /\ UNCHANGED <<ws, connected, nSockets, rs, timeout, connectPromise, hs,
                 serverVars, collapsed>>

(* part_001:317-392: the attempt creates its socket, arms its handshake    *)
(* timeout and registers the message/error/close handlers                  *)
connectStarts(maxSockets) ==
  /\ ~(connecting \/ connected)
  /\ ~ListenerThrows
  /\ urlValid
  /\ nSockets < maxSockets
  /\ LET s == nSockets + 1 IN
       /\ nSockets' = s
       /\ connecting' = TRUE
       /\ emitStatus("connecting")
       /\ timeout' = [timeout EXCEPT ![s] = TRUE]
       /\ rs' = [rs EXCEPT ![s] = "connecting"]
       /\ ws' = s
  /\ scen' = Hist("scenario", IF scen = "init" THEN "connecting" ELSE "off", scen)
  /\ UNCHANGED <<connected, connectPromise, hs, serverVars, collapsed>>

connect(maxSockets) ==
  \/ connectCollapsed
  \/ connectListenerThrows
  \/ connectThrows
  \/ connectStarts(maxSockets)

(* a connect() call of the application *)
Connect(maxSockets) ==
  /\ component = "reconnecting"
  /\ connect(maxSockets)
  /\ UNCHANGED <<reconnectTimer, timersPending, autoAttempts, closures, lastClose>>
  /\ UNCHANGED reqVars

(* ------------------------------ environment -------------------------- *)
(* frames are delivered while the socket is OPEN, and still while the      *)
(* closing handshake started by ws.close() runs                            *)
Receiving(s) == rs[s] \in {"open", "closing"}

(* ws.close() on a CONNECTING socket queues its 'error' and 'close' for    *)
(* the end of the current turn (process.nextTick): no timer and no other   *)
(* socket event runs before them, only calls made in the same turn do      *)
Quiet == \A s \in Sockets : rs[s] # "aborting"

(* What a server that follows the protocol sends on socket s: one          *)
(* challenge, one Response (hello-ok or an error) per connect Request it   *)
(* received there, and one Response (never hello-ok) per request received  *)
(* there.                                                                  *)
MayChallenge(s) == ~challenged[s]

Owed(s, f) ==
  IF f.id = 0
  THEN connectSent[s] > 0 /\ f.kind # "data"
  ELSE reqOut[f.id] /\ reqSock[f.id] = s /\ f.kind # "hello"

(* the server's side of socket s ends with the connection: nothing is     *)
(* owed on a closed socket                                                 *)
serverForgets(s) ==
  /\ challenged' = [challenged EXCEPT ![s] = FALSE]
  /\ connectSent' = [connectSent EXCEPT ![s] = 0]
  /\ reqOut' = [i \in ReqIds |-> reqOut[i] /\ reqSock[i] # s]

(* ------------------------------ socket events ------------------------- *)
(* the library completes the opening handshake; the client has no 'open'   *)
(* handler                                                                 *)
SocketOpen(s) ==
  /\ component = "reconnecting"
  /\ rs[s] = "connecting" /\ Quiet
  /\ rs' = [rs EXCEPT ![s] = "open"]
  /\ scen' = Hist("scenario", IF scen = "connecting" /\ s = 1 THEN "opened" ELSE "off", scen)
  /\ emitNothing
  /\ UNCHANGED <<ws, connected, connecting, reconnectTimer, nSockets, timeout,
                 connectPromise, timersPending, hs,
                 serverVars, collapsed, autoAttempts, closures, lastClose>>
  /\ UNCHANGED reqVars

(* part_001:395-405 handleChallenge, reached from the handler at 343-346:  *)
(* the connect Request goes out on this.ws, if that socket is OPEN         *)
handleChallenge ==
  connectSent' = IF ws # 0 /\ rs[ws] = "open"
                 THEN [connectSent EXCEPT ![ws] = @ + 1]
                 ELSE connectSent

RecvChallenge(s, strict) ==
  /\ component = "reconnecting"
  /\ Receiving(s) /\ Quiet
  /\ strict => MayChallenge(s)
  /\ challenged' = [challenged EXCEPT ![s] = TRUE]
  /\ handleChallenge
  /\ scen' = Hist("scenario", IF scen = "opened" /\ s = 1 THEN "challenged" ELSE "off", scen)
  /\ emitNothing
  /\ UNCHANGED <<ws, connected, connecting, reconnectTimer, nSockets, rs, timeout,
                 connectPromise, timersPending, hs, reqOut,
                 collapsed, autoAttempts, closures, lastClose>>
  /\ UNCHANGED reqVars

(* the handshake completed without the 'connected' broadcast *)
helloOkUnannounced(s, f) ==
  /\ timeout' = [timeout EXCEPT ![s] = FALSE]
  /\ connected' = TRUE
  /\ connecting' = FALSE
  /\ emitNothing
  /\ settleConnect(s, Resolved("server-hello"))
  /\ hs' = Hist("reconnect", [hs EXCEPT ![s] = TRUE], hs)
  /\ scen' = Hist("scenario", IF scen = "challenged" /\ s = 1 /\ f.id = 0 /\ connectSent[1] > 0
                  THEN "done" ELSE "off", scen)
  /\ UNCHANGED reqVars

(* part_001:349-356: any ok Response with a hello-ok payload completes the *)
(* handshake of the socket that delivered it                               *)
helloOk(s, f) ==
  /\ timeout' = [timeout EXCEPT ![s] = FALSE]
  /\ connected' = TRUE
  /\ connecting' = FALSE
  /\ emitStatus("connected")
  /\ settleConnect(s, Resolved("server-hello"))
  /\ hs' = Hist("reconnect", [hs EXCEPT ![s] = TRUE], hs)
  /\ scen' = Hist("scenario", IF scen = "challenged" /\ s = 1 /\ f.id = 0 /\ connectSent[1] > 0
                  THEN "done" ELSE "off", scen)
  /\ UNCHANGED reqVars

(* part_001:363: msg.error?.message || 'Connect failed' *)
ConnectErrorMessage(f) ==
  Message(IF f.kind = "error" THEN "server-message" ELSE "Connect failed")

(* part_001:359-365: an ok:false Response while _connecting fails the      *)
(* attempt of the socket that delivered it                                 *)
connectError(s, f) ==
  /\ timeout' = [timeout EXCEPT ![s] = FALSE]
  /\ connecting' = FALSE
  /\ emitStatus("error")
  /\ settleConnect(s, Rejected(ConnectErrorMessage(f)))
  /\ scen' = Hist("scenario", "off", scen)
  /\ UNCHANGED <<connected, hs>>
  /\ UNCHANGED reqVars

(* part_001:425: res.error?.message || 'Request failed' *)
RequestErrorMessage(f) ==
  Message(IF f.kind = "error" THEN "server-message" ELSE "Request failed")

(* responses matched to requests in the order the requests were issued *)
handleResponseInOrder(f) ==
  /\ IF f.id \in pendingRequests
     THEN LET oldest == CHOOSE i \in pendingRequests : \A j \in pendingRequests : i <= j IN
          /\ pendingRequests' = pendingRequests \ {oldest}
          /\ caller' = [caller EXCEPT ![oldest] =
                          IF FrameOk(f)
                          THEN Settle(@, ReqResolved(f.id, "payload"))
                          ELSE Settle(@, ReqRejected(f.id, RequestErrorMessage(f)))]
          /\ reqTimer' = [reqTimer EXCEPT ![oldest] = Stale(@)]
     ELSE UNCHANGED <<pendingRequests, caller, reqTimer>>
  /\ UNCHANGED <<requestId, reqSock>>

(* part_001:418-428 handleResponse *)
handleResponse(f) ==
  /\ IF f.id \in pendingRequests
     THEN /\ pendingRequests' = pendingRequests \ {f.id}
          /\ caller' = [caller EXCEPT ![f.id] =
                          IF FrameOk(f)
                          THEN Settle(@, ReqResolved(f.id, "payload"))
                          ELSE Settle(@, ReqRejected(f.id, RequestErrorMessage(f)))]
          /\ reqTimer' = [reqTimer EXCEPT ![f.id] = Stale(@)]
     ELSE UNCHANGED <<pendingRequests, caller, reqTimer>>
  /\ UNCHANGED <<requestId, reqSock>>

(* part_001:367-370: frames are handled only while _connected *)
normalMessage(f) ==
  /\ IF connected THEN handleResponse(f) ELSE UNCHANGED reqVars
  /\ scen' = Hist("scenario", "off", scen)
  /\ emitNothing
  /\ UNCHANGED <<timeout, connected, connecting, connectPromise, hs>>

(* part_001:338-372: the 'message' handler of socket s, for a Response *)
onResponse(s, f) ==
  IF f.kind = "hello" THEN helloOk(s, f)
  ELSE IF ~FrameOk(f) /\ connecting THEN connectError(s, f)
  ELSE normalMessage(f)

RecvRes(s, f, strict) ==
  /\ component = "reconnecting"
  /\ Receiving(s) /\ Quiet
  /\ strict => Owed(s, f)
  /\ connectSent' = IF f.id = 0 /\ connectSent[s] > 0
                    THEN [connectSent EXCEPT ![s] = @ - 1] ELSE connectSent
  /\ reqOut' = IF f.id # 0 /\ reqSock[f.id] = s
               THEN [reqOut EXCEPT ![f.id] = FALSE] ELSE reqOut
  /\ onResponse(s, f)
  /\ UNCHANGED <<ws, reconnectTimer, nSockets, rs, timersPending, challenged,
                 collapsed, autoAttempts, closures, lastClose>>

(* Timers of one duration fire in the order they were armed, and a 30 s    *)
(* request timer armed after a 10 s handshake timer fires after it.        *)
(* part_001:321-326: the handshake timeout of attempt s fires *)
onHandshakeTimeout(s) ==
  /\ connecting' = FALSE
  /\ rs' = wsClose(rs, ws)
  /\ emitStatus("error")
  /\ settleConnect(s, Rejected("Connection timeout"))

HandshakeTimeout(s) ==
  /\ component = "reconnecting"
  /\ timeout[s] /\ Quiet
  /\ \A r \in Sockets : r < s => ~timeout[r]
  /\ timeout' = [timeout EXCEPT ![s] = FALSE]
  /\ onHandshakeTimeout(s)
  /\ scen' = Hist("scenario", "off", scen)
  /\ UNCHANGED <<ws, connected, reconnectTimer, nSockets, timersPending, hs,
                 serverVars, collapsed, autoAttempts, closures, lastClose>>
  /\ UNCHANGED reqVars

(* part_001:374-379: the 'error' handler of socket s *)
onError(s) ==
  /\ timeout' = [timeout EXCEPT ![s] = FALSE]
  /\ connecting' = FALSE
  /\ emitStatus("error")
  /\ settleConnect(s, Rejected("socket-error"))

(* an established socket fails (a protocol error, a broken stream): the    *)
(* library raises 'error', stops delivering frames and raises 'close' in a *)
(* later turn of the event loop                                            *)
SocketError(s) ==
  /\ component = "reconnecting"
  /\ rs[s] \in {"open", "closing"} /\ Quiet
  /\ rs' = [rs EXCEPT ![s] = "errored"]
  /\ onError(s)
  /\ scen' = Hist("scenario", "off", scen)
  /\ UNCHANGED <<ws, connected, reconnectTimer, nSockets, timersPending, hs,
                 serverVars, collapsed, autoAttempts, closures, lastClose>>
  /\ UNCHANGED reqVars

(* part_001:450-456 scheduleReconnect: one timer, unless one is pending *)
scheduleReconnect ==
  IF reconnectTimer
  THEN UNCHANGED <<reconnectTimer, timersPending>>
  ELSE /\ reconnectTimer' = TRUE
       /\ timersPending' = timersPending + 1

(* every close that is not clean asks for a reconnect *)
shouldReconnectAnyClose(wasConnected, code) == code # CleanClose

(* part_001:388: if (wasConnected && code !== 1000) *)
shouldReconnect(wasConnected, code) == wasConnected /\ code # CleanClose

(* part_001:381-391: the 'close' handler of socket s *)
onClose(s, code) ==
  /\ timeout' = [timeout EXCEPT ![s] = FALSE]
  /\ connected' = FALSE
  /\ connecting' = FALSE
  /\ emitStatus("disconnected")
  /\ IF shouldReconnect(connected, code)
     THEN scheduleReconnect
     ELSE UNCHANGED <<reconnectTimer, timersPending>>
  /\ lastClose' = Hist("reconnect", [sock |-> s, code |-> code,
                         scheduled |-> shouldReconnect(connected, code)], lastClose)

SocketClose(s, code) ==
  /\ component = "reconnecting"
  /\ rs[s] \in {"open", "closing", "errored"} /\ Quiet
  /\ rs' = [rs EXCEPT ![s] = "closed"]
  /\ onClose(s, code)
  /\ closures' = Hist("reconnect", IF connected /\ code # CleanClose THEN closures + 1 ELSE closures,
                      closures)
  /\ scen' = Hist("scenario", "off", scen)
  /\ serverForgets(s)
  /\ UNCHANGED <<ws, nSockets, connectPromise, hs, collapsed, autoAttempts>>
  /\ UNCHANGED reqVars

(* The opening handshake of socket s fails, or was aborted by ws.close():  *)
(* the library raises 'error' and then 'close' (code 1006) in the same     *)
(* turn, so the handlers of part_001:374-379 and 381-391 run back to back  *)
SocketFail(s) ==
  /\ component = "reconnecting"
  /\ rs[s] = "aborting" \/ (rs[s] = "connecting" /\ Quiet)
  /\ rs' = [rs EXCEPT ![s] = "closed"]
  /\ timeout' = [timeout EXCEPT ![s] = FALSE]
  /\ settleConnect(s, Rejected("socket-error"))
  /\ connected' = FALSE
  /\ connecting' = FALSE
  /\ emitStatusTwice("error", "disconnected")
  /\ IF shouldReconnect(connected, AbnormalCode)
     THEN scheduleReconnect
     ELSE UNCHANGED <<reconnectTimer, timersPending>>
  /\ lastClose' = Hist("reconnect", [sock |-> s, code |-> AbnormalCode,
                         scheduled |-> shouldReconnect(connected, AbnormalCode)], lastClose)
  /\ closures' = Hist("reconnect", IF connected THEN closures + 1 ELSE closures, closures)
  /\ scen' = Hist("scenario", "off", scen)
  /\ serverForgets(s)
  /\ UNCHANGED <<ws, nSockets, hs, collapsed, autoAttempts>>
  /\ UNCHANGED reqVars

(* part_001:524-534 disconnect() *)
Disconnect ==
  /\ component = "reconnecting"
  /\ IF reconnectTimer
     THEN /\ timersPending' = timersPending - 1
          /\ reconnectTimer' = FALSE
     ELSE UNCHANGED <<reconnectTimer, timersPending>>
  /\ rs' = wsClose(rs, ws)
  /\ ws' = 0
  /\ connected' = FALSE
  /\ connecting' = FALSE
  /\ emitStatus("disconnected")
  /\ scen' = Hist("scenario", "off", scen)
  /\ UNCHANGED <<nSockets, timeout, connectPromise, hs, serverVars, collapsed,
                 autoAttempts, closures, lastClose>>
  /\ UNCHANGED reqVars

(* part_001:452-455: the reconnect timer fires and calls connect() *)
ReconnectFire(maxSockets) ==
  /\ component = "reconnecting"
  /\ timersPending > 0 /\ Quiet
  /\ timersPending' = timersPending - 1
  /\ reconnectTimer' = FALSE
  /\ connect(maxSockets)
  /\ autoAttempts' = Hist("reconnect", IF ~(connecting \/ connected) THEN autoAttempts + 1
                          ELSE autoAttempts, autoAttempts)
  /\ UNCHANGED <<closures, lastClose>>
  /\ UNCHANGED reqVars

(* ------------------------------ request() ----------------------------- *)
(* the counter restarts whenever no request is pending *)
nextRequestIdRestarting(counter) == IF pendingRequests = {} THEN 1 ELSE counter + 1

(* part_001:464: ++this.requestId *)
nextRequestId(counter) == counter + 1

(* part_001:460-480: the call registers a pending entry, sends the frame   *)
(* and arms its own timeout; it throws unless this.ws is OPEN              *)
Request(maxReq) ==
  /\ component = "reconnecting"
  /\ ws # 0 /\ rs[ws] = "open"
  /\ requestId < maxReq
  /\ LET id == nextRequestId(requestId) IN
       /\ requestId' = id
       /\ pendingRequests' = pendingRequests \cup {id}
       /\ caller' = [caller EXCEPT ![id] = ReqPending]
       /\ reqTimer' = [reqTimer EXCEPT ![id] = TRUE]
       /\ reqSock' = [reqSock EXCEPT ![id] = ws]
       /\ reqOut' = [reqOut EXCEPT ![id] = TRUE]
  /\ scen' = Hist("scenario", "off", scen)
  /\ emitNothing
  /\ UNCHANGED <<ws, connected, connecting, reconnectTimer, nSockets, rs, timeout,
                 connectPromise, timersPending, hs,
                 challenged, connectSent, collapsed, autoAttempts, closures, lastClose>>

(* the timeout removes the entry and tells nobody *)
onRequestTimeoutSilent(id) ==
  /\ pendingRequests' = pendingRequests \ {id}
  /\ UNCHANGED caller

(* part_001:473-478: the timeout of request id fires *)
onRequestTimeout(id) ==
  IF id \in pendingRequests
  THEN /\ pendingRequests' = pendingRequests \ {id}
       /\ caller' = [caller EXCEPT ![id] = Settle(@, ReqRejected(id, "timed out"))]
  ELSE UNCHANGED <<pendingRequests, caller>>

RequestTimeout(id) ==
  /\ component = "reconnecting"
  /\ reqTimer[id] /\ Quiet
  /\ \A i \in ReqIds : i < id => ~reqTimer[i]
  /\ \A s \in Sockets : s <= reqSock[id] => ~timeout[s]
  /\ reqTimer' = [reqTimer EXCEPT ![id] = FALSE]
  /\ onRequestTimeout(id)
  /\ scen' = Hist("scenario", "off", scen)
  /\ emitNothing
  /\ UNCHANGED <<requestId, reqSock>>
  /\ UNCHANGED connVarsButScen

(* ====================================================================== *)
(* Text: decimal numerals and template strings, as sequences of characters *)
(* ====================================================================== *)
DigitChars == <<"0", "1", "2", "3", "4", "5", "6", "7", "8", "9">>

IsDigit(c) == \E d \in DOMAIN DigitChars : DigitChars[d] = c
DigitValue(c) == (CHOOSE d \in DOMAIN DigitChars : DigitChars[d] = c) - 1

(* String(n) of a non-negative integer: `${n}` *)
RECURSIVE Numeral(_)
Numeral(n) ==
  IF n < 10 THEN <<DigitChars[n + 1]>>
  ELSE Numeral(n \div 10) \o <<DigitChars[(n % 10) + 1]>>

(* the characters of str without the first occurrence of c:               *)
(* String.prototype.replace(c, '')                                         *)
RECURSIVE RemoveFirst(_, _)
RemoveFirst(str, c) ==
  IF str = <<>> THEN <<>>
  ELSE IF Head(str) = c THEN Tail(str)
  ELSE <<Head(str)>> \o RemoveFirst(Tail(str), c)

NaN == 0 - 1   \* stands for NaN: equal to no key of a map

(* parseInt(str, 10) of a string without sign or leading blanks: the value *)
(* of its longest prefix of digits, NaN if that prefix is empty            *)
RECURSIVE ParseDigits(_, _)
ParseDigits(str, acc) ==
  IF str = <<>> \/ ~IsDigit(Head(str)) THEN acc
  ELSE ParseDigits(Tail(str), 10 * (IF acc = NaN THEN 0 ELSE acc) + DigitValue(Head(str)))

parseInt(str) == ParseDigits(str, NaN)

(* part_001:464: id = `req-${n}` *)
RequestWireId(n) == <<"r", "e", "q", "-">> \o Numeral(n)

(* part_001:400: id: `connect-${Date.now()}` *)
ConnectWireId(ms) == <<"c", "o", "n", "n", "e", "c", "t", "-">> \o Numeral(ms)

(* ====================================================================== *)
(* GatewayClient of src/main/gateway-client.ts                            *)
(* No status listener is registered on it: emitStatus (232-234) calls      *)
(* nobody.                                                                 *)
(* ====================================================================== *)
notMain == <<connVars, reqVars, component, storeVars, eventVars>>

(* gateway-client.ts:109 and 192: id: `r${id}` *)
WireId(n) == <<"r">> \o Numeral(n)

(* gateway-client.ts:92 and 164: the key a Response's id is looked up by *)
idNum(id) == parseInt(RemoveFirst(id, "r"))

(* Response frames the server may send to this client                      *)
(*   data     ok:true,  a payload (an object)                              *)
(*   empty    ok:true,  no payload, or a falsy one                         *)
(*   error    ok:false, error.message present                              *)
(*   failure  ok:false, no error.message                                   *)
MainKinds == {"data", "empty", "error", "failure"}
MainFrames == [id : {WireId(n) : n \in MIds}, kind : MainKinds]
MainOk(f) == f.kind \in {"data", "empty"}

(* gateway-client.ts:99 and 171: msg.payload || msg *)
Delivered(f) == IF f.kind = "data" THEN "payload" ELSE "frame"

(* gateway-client.ts:97 and 169: msg.error?.message || <default> *)
MainErrorMessage(f, default) ==
  Message(IF f.kind = "error" THEN "server-message" ELSE default)

InitMain ==
  /\ mWs = 0
  /\ mConnected = FALSE
  /\ mRequestId = 0
  /\ mPending = {}
  /\ mEntry = [i \in MIds |-> 0]
  /\ mNSockets = 0
  /\ mRs = [s \in MSockets |-> "none"]
  /\ mTimeout = [s \in MSockets |-> FALSE]
  /\ mConnectPromise = [s \in MSockets |-> Pending]
  /\ mFirst = [s \in MSockets |-> FALSE]
  /\ mRaw = [s \in MSockets |-> 0]
  /\ mChallenged = [s \in MSockets |-> FALSE]
  /\ mAwait = [i \in MIds |-> FALSE]
  /\ mSock = [i \in MIds |-> 0]
  /\ mCaller = [i \in MIds |-> ReqIdle]
  /\ mReqTimer = [i \in MIds |-> FALSE]

MainReceiving(s) == mRs[s] \in {"open", "closing"}
MainQuiet == \A s \in MSockets : mRs[s] # "aborting"

(* gateway-client.ts:72-156 connect(): every call creates a socket, arms   *)
(* its timeout and registers the open/message/close/error handlers         *)
mainConnect ==
  /\ component = "main"
  /\ mNSockets < MainSockets
  /\ LET s == mNSockets + 1 IN
       /\ mNSockets' = s
       /\ mWs' = s
       /\ mRs' = [mRs EXCEPT ![s] = "connecting"]
       /\ mTimeout' = [mTimeout EXCEPT ![s] = TRUE]
       /\ mFirst' = [mFirst EXCEPT ![s] = TRUE]
  /\ UNCHANGED <<mConnected, mRequestId, mPending, mEntry, mConnectPromise, mRaw,
                 mChallenged, mAwait, mSock, mCaller, mReqTimer>>
  /\ UNCHANGED notMain

(* gateway-client.ts:82-84: the 'open' handler *)
MainSocketOpen(s) ==
  /\ component = "main"
  /\ mRs[s] = "connecting" /\ MainQuiet
  /\ mRs' = [mRs EXCEPT ![s] = "open"]
  /\ UNCHANGED <<mWs, mConnected, mRequestId, mPending, mEntry, mNSockets, mTimeout,
                 mConnectPromise, mFirst, mRaw, mChallenged, mAwait, mSock, mCaller,
                 mReqTimer>>
  /\ UNCHANGED notMain

(* gateway-client.ts:77-80: the timeout of the connect() call of socket s *)
MainHandshakeTimeout(s) ==
  /\ component = "main"
  /\ mTimeout[s] /\ MainQuiet
  /\ \A r \in MSockets : r < s => ~mTimeout[r]
  /\ mTimeout' = [mTimeout EXCEPT ![s] = FALSE]
  /\ mConnectPromise' = Hist("promises", [mConnectPromise EXCEPT ![s] =
                                Settle(@, Rejected("Connection timeout"))], mConnectPromise)
  /\ mRs' = wsClose(mRs, mWs)
  /\ UNCHANGED <<mWs, mConnected, mRequestId, mPending, mEntry, mNSockets, mFirst, mRaw,
                 mChallenged, mAwait, mSock, mCaller, mReqTimer>>
  /\ UNCHANGED notMain

(* resolve/reject of the promise returned by the connect() call of socket a *)
settleMainConnect(a, outcome) ==
  mConnectPromise' = Hist("promises", [mConnectPromise EXCEPT ![a] = Settle(@, outcome)],
                          mConnectPromise)

(* gateway-client.ts:124-131: the resolve callback of the connect Request  *)
(* of attempt a; the listeners are swapped on whatever this.ws is now      *)
resolveConnect(a) ==
  /\ mTimeout' = [mTimeout EXCEPT ![a] = FALSE]
  /\ mConnected' = TRUE
  /\ mFirst' = IF mWs = a THEN [mFirst EXCEPT ![a] = FALSE] ELSE mFirst
  /\ mRaw' = IF mWs # 0 THEN [mRaw EXCEPT ![mWs] = @ + 1] ELSE mRaw
  /\ settleMainConnect(a, Resolved("void"))
  /\ UNCHANGED mCaller

(* gateway-client.ts:132-136: its reject callback *)
rejectConnect(a, message) ==
  /\ mTimeout' = [mTimeout EXCEPT ![a] = FALSE]
  /\ settleMainConnect(a, Rejected(message))
  /\ UNCHANGED <<mConnected, mFirst, mRaw, mCaller>>

(* gateway-client.ts:93-101 and 165-173: the entry of key n is removed and *)
(* its resolve or reject callback called                                   *)
settlePending(n, f, default) ==
  /\ mPending' = mPending \ {n}
  /\ mEntry' = [mEntry EXCEPT ![n] = 0]
  /\ IF mEntry[n] = 0
     THEN /\ mCaller' = [mCaller EXCEPT ![n] =
                          IF MainOk(f)
                          THEN Settle(@, ReqResolved(n, Delivered(f)))
                          ELSE Settle(@, ReqRejected(n, MainErrorMessage(f, default)))]
          /\ mReqTimer' = [mReqTimer EXCEPT ![n] = Stale(@)]
          /\ UNCHANGED <<mTimeout, mConnected, mFirst, mRaw, mConnectPromise>>
     ELSE /\ IF MainOk(f)
             THEN resolveConnect(mEntry[n])
             ELSE rejectConnect(mEntry[n], MainErrorMessage(f, default))
          /\ UNCHANGED mReqTimer

(* gateway-client.ts:87-103 onFirstMessage and 158-175 handleRawMessage,   *)
(* for a Response: the listeners of socket s run in the order they were    *)
(* registered, and the first one that finds the entry settles it           *)
onMainResponse(s, f) ==
  IF idNum(f.id) \in mPending /\ (mFirst[s] \/ mRaw[s] > 0)
  THEN settlePending(idNum(f.id), f, IF mFirst[s] THEN "Connect failed" ELSE "Request failed")
  ELSE UNCHANGED <<mPending, mEntry, mCaller, mReqTimer, mTimeout, mConnected, mFirst,
                   mRaw, mConnectPromise>>

(* what a server that follows the protocol answers on socket s: the frame  *)
(* with the id it received there, once                                     *)
MainOwed(s, f) ==
  \E n \in MIds : /\ f.id = WireId(n)
                  /\ mAwait[n]
                  /\ mSock[n] = s
                  /\ (mEntry[n] # 0 => f.kind # "empty")

MainRecvRes(s, f, strict) ==
  /\ component = "main"
  /\ MainReceiving(s) /\ MainQuiet
  /\ strict => MainOwed(s, f)
  /\ mAwait' = [n \in MIds |-> mAwait[n] /\ ~(f.id = WireId(n) /\ mSock[n] = s)]
  /\ onMainResponse(s, f)
  /\ UNCHANGED <<mWs, mRequestId, mNSockets, mRs, mChallenged, mSock>>
  /\ UNCHANGED notMain

(* gateway-client.ts:105-139: onFirstMessage for connect.challenge draws   *)
(* an id, registers the callbacks of the connect Request under it and      *)
(* sends the Request on this.ws                                            *)
onChallenge(s) ==
  LET n == mRequestId + 1 IN
    /\ mRequestId' = n
    /\ mPending' = mPending \cup {n}
    /\ mEntry' = [mEntry EXCEPT ![n] = s]
    /\ mSock' = [mSock EXCEPT ![n] = mWs]
    /\ mAwait' = [mAwait EXCEPT ![n] = mWs # 0 /\ mRs[mWs] = "open"]

MainRecvChallenge(s, strict) ==
  /\ component = "main"
  /\ MainReceiving(s) /\ MainQuiet
  /\ strict => ~mChallenged[s]
  /\ mRequestId < MainIds
  /\ mChallenged' = [mChallenged EXCEPT ![s] = TRUE]
  /\ IF mFirst[s]
     THEN onChallenge(s)
     ELSE UNCHANGED <<mRequestId, mPending, mEntry, mSock, mAwait>>
  /\ UNCHANGED <<mWs, mConnected, mNSockets, mRs, mTimeout, mConnectPromise, mFirst, mRaw,
                 mCaller, mReqTimer>>
  /\ UNCHANGED notMain

(* gateway-client.ts:184-201 request(), past its 'Not connected' guard:    *)
(* send() throws on a CONNECTING socket, after the entry was registered    *)
(* and before the timeout is armed; on a socket past OPEN it sends nothing *)
mainRequest ==
  /\ component = "main"
  /\ mWs # 0 /\ mConnected
  /\ mRequestId < MainIds
  /\ LET n == mRequestId + 1 IN
       /\ mRequestId' = n
       /\ mPending' = mPending \cup {n}
       /\ mEntry' = [mEntry EXCEPT ![n] = 0]
       /\ mSock' = [mSock EXCEPT ![n] = mWs]
       /\ mAwait' = [mAwait EXCEPT ![n] = mRs[mWs] = "open"]
       /\ mCaller' = [mCaller EXCEPT ![n] =
                        IF mRs[mWs] = "connecting" THEN ReqRejected(n, "send threw")
                        ELSE ReqPending]
       /\ mReqTimer' = [mReqTimer EXCEPT ![n] = mRs[mWs] # "connecting"]
  /\ UNCHANGED <<mWs, mConnected, mNSockets, mRs, mTimeout, mConnectPromise, mFirst, mRaw,
                 mChallenged>>
  /\ UNCHANGED notMain

(* gateway-client.ts:194-199: the timeout of request n fires *)
MainRequestTimeout(n) ==
  /\ component = "main"
  /\ mReqTimer[n] /\ MainQuiet
  /\ \A i \in MIds : i < n => ~mReqTimer[i]
  /\ \A s \in MSockets : s <= mSock[n] => ~mTimeout[s]
  /\ mReqTimer' = [mReqTimer EXCEPT ![n] = FALSE]
  /\ IF n \in mPending
     THEN /\ mPending' = mPending \ {n}
          /\ mCaller' = [mCaller EXCEPT ![n] = Settle(@, ReqRejected(n, "timed out"))]
     ELSE UNCHANGED <<mPending, mCaller>>
  /\ UNCHANGED <<mWs, mConnected, mRequestId, mEntry, mNSockets, mRs, mTimeout,
                 mConnectPromise, mFirst, mRaw, mChallenged, mAwait, mSock>>
  /\ UNCHANGED notMain

(* the server's side of socket s ends with the connection *)
mainServerForgets(s) ==
  /\ mChallenged' = [mChallenged EXCEPT ![s] = FALSE]
  /\ mAwait' = [n \in MIds |-> mAwait[n] /\ mSock[n] # s]

(* gateway-client.ts:150-154: the 'error' handler of socket s *)
onMainError(s) ==
  /\ mTimeout' = [mTimeout EXCEPT ![s] = FALSE]
  /\ mConnectPromise' = Hist("promises", [mConnectPromise EXCEPT ![s] =
                                Settle(@, Rejected("socket-error"))], mConnectPromise)

MainSocketError(s) ==
  /\ component = "main"
  /\ MainReceiving(s) /\ MainQuiet
  /\ mRs' = [mRs EXCEPT ![s] = "errored"]
  /\ onMainError(s)
  /\ UNCHANGED <<mWs, mConnected, mRequestId, mPending, mEntry, mNSockets, mFirst, mRaw,
                 mChallenged, mAwait, mSock, mCaller, mReqTimer>>
  /\ UNCHANGED notMain

(* gateway-client.ts:145-148: the 'close' handler of socket s *)
MainSocketClose(s) ==
  /\ component = "main"
  /\ mRs[s] \in {"open", "closing", "errored"} /\ MainQuiet
  /\ mRs' = [mRs EXCEPT ![s] = "closed"]
  /\ mConnected' = FALSE
  /\ mainServerForgets(s)
  /\ UNCHANGED <<mWs, mRequestId, mPending, mEntry, mNSockets, mTimeout, mConnectPromise,
                 mFirst, mRaw, mSock, mCaller, mReqTimer>>
  /\ UNCHANGED notMain

(* the opening handshake of socket s fails or was aborted: 'error' and     *)
(* 'close' in the same turn, gateway-client.ts:150-154 then 145-148        *)
MainSocketFail(s) ==
  /\ component = "main"
  /\ mRs[s] = "aborting" \/ (mRs[s] = "connecting" /\ MainQuiet)
  /\ mRs' = [mRs EXCEPT ![s] = "closed"]
  /\ onMainError(s)
  /\ mConnected' = FALSE
  /\ mainServerForgets(s)
  /\ UNCHANGED <<mWs, mRequestId, mPending, mEntry, mNSockets, mFirst, mRaw,
                 mSock, mCaller, mReqTimer>>
  /\ UNCHANGED notMain

(* gateway-client.ts:222-227 disconnect() *)
mainDisconnect ==
  /\ component = "main"
  /\ mConnected' = FALSE
  /\ mRs' = wsClose(mRs, mWs)
  /\ mWs' = 0
  /\ UNCHANGED <<mRequestId, mPending, mEntry, mNSockets, mTimeout, mConnectPromise,
                 mFirst, mRaw, mChallenged, mAwait, mSock, mCaller, mReqTimer>>
  /\ UNCHANGED notMain

NextMain(strict) ==
  \/ mainConnect
  \/ \E s \in MSockets : MainSocketOpen(s)
  \/ \E s \in MSockets : MainRecvChallenge(s, strict)
  \/ \E s \in MSockets, f \in MainFrames : MainRecvRes(s, f, strict)
  \/ \E s \in MSockets : MainHandshakeTimeout(s)
  \/ mainRequest
  \/ \E n \in MIds : MainRequestTimeout(n)
  \/ \E s \in MSockets : MainSocketError(s)
  \/ \E s \in MSockets : MainSocketClose(s)
  \/ \E s \in MSockets : MainSocketFail(s)
  \/ mainDisconnect

(* ====================================================================== *)
(* Event normalizer, src/main/event-parser.ts                             *)
(* ====================================================================== *)
RunIds == {<<"a">>, <<"b">>}

(* the event frames the gateway pushes: the `event` name and the fields of *)
(* the payload the normalizer reads ("none" is an absent field)            *)
ChatStates == {"delta", "final", "aborted", "error"}

ChatFrame(state) ==
  [event |-> "chat", payload |-> "object", data |-> "absent", state |-> state,
   sessionKey |-> "s1", usage |-> "none", stopReason |-> "none", stream |-> "none", phase |-> "none",
   dataType |-> "none", text |-> IF state = "error" THEN "none" ELSE "said",
   errorMessage |-> IF state = "error" THEN "failed" ELSE "none"]

AgentFrame(stream, phase, dataType, text) ==
  [event |-> "agent", payload |-> "object", data |-> "object", state |-> "none",
   sessionKey |-> "s1", usage |-> "none", stopReason |-> "none", stream |-> stream, phase |-> phase,
   dataType |-> dataType, text |-> text, errorMessage |-> "none"]

FrameShapes ==
  {ChatFrame(state) : state \in ChatStates}
    \cup {AgentFrame("lifecycle", phase, "none", "none") : phase \in {"start", "end"}}
    \cup {AgentFrame("assistant", "none", "text", "said")}
    \cup {AgentFrame("tool", "none", dataType, "out") : dataType \in {"tool_use", "tool_result"}}
    \cup {AgentFrame("other", "none", "none", "none")}
    \cup {[event |-> "tick", payload |-> "absent", data |-> "absent", state |-> "none",
           sessionKey |-> "absent", usage |-> "none", stopReason |-> "none", stream |-> "none", phase |-> "none",
           dataType |-> "none", text |-> "none", errorMessage |-> "none"]}

(* The frames with any payload: `payload` is "absent" (undefined or null), *)
(* "empty" (a falsy primitive), "primitive" (a truthy one) or "object";   *)
(* `data` of an object payload is "absent" (undefined or null),            *)
(* "primitive" or "object"; a field that is not there is "none"            *)
EventNames == {"chat", "agent", "health", "tick", "presence", "exec.started"}

Bare(event, payload) ==
  [event |-> event, payload |-> payload, data |-> "absent", state |-> "none",
   sessionKey |-> "absent", usage |-> "none", stopReason |-> "none",
   stream |-> "none", phase |-> "none", dataType |-> "none", text |-> "none",
   errorMessage |-> "none"]

AnyFrames ==
  {Bare(event, payload) :
     event \in EventNames, payload \in {"absent", "empty", "primitive"}}
    \cup {f \in [event : EventNames, payload : {"object"},
                 data : {"absent", "primitive", "object"},
                 state : ChatStates \cup {"none"},
                 sessionKey : {"absent", "s1"},
                 usage : {"none", "counted"},
                 stopReason : {"none", "stop"},
                 stream : {"none", "lifecycle", "assistant", "tool"},
                 phase : {"none", "start", "end"},
                 dataType : {"none", "tool_use", "tool_result", "text"},
                 text : {"none", "said"},
                 errorMessage : {"none", "failed"}] :
             /\ f.data # "object" =>
                  f.phase = "none" /\ f.dataType = "none" /\ f.text = "none"
             /\ f.event # "chat" => f.state = "none" /\ f.errorMessage = "none"
             /\ f.event # "chat" => f.usage = "none" /\ f.stopReason = "none"
             /\ f.event = "chat" => f.stream = "none" /\ f.data = "absent"}

(* `if (frame.payload)`: the payload is truthy *)
Truthy(payload) == payload \in {"primitive", "object"}

(* event-parser.ts:91 and 151: id: `${event.runId}-${event.seq}` *)
ActionId(runId, n) == runId \o <<"-">> \o Numeral(n)

(* usage and stopReason copied whatever the state *)
chatEventToActionAnyState(e, runId, n) ==
  [id |-> ActionId(runId, n),
   runId |-> runId,
   seq |-> n,
   type |-> CASE e.state = "final" -> "complete"
              [] e.state = "aborted" -> "aborted"
              [] e.state = "error" -> "error"
              [] OTHER -> "streaming",
   eventType |-> "chat",
   content |-> IF e.errorMessage # "none" THEN e.errorMessage ELSE e.text,
   sessionKey |-> e.sessionKey,
   inputTokens |-> e.usage,
   outputTokens |-> e.usage,
   stopReason |-> e.stopReason]

(* event-parser.ts:84-119 chatEventToAction *)
chatEventToAction(e, runId, n) ==
  [id |-> ActionId(runId, n),
   runId |-> runId,
   seq |-> n,
   type |-> CASE e.state = "final" -> "complete"
              [] e.state = "aborted" -> "aborted"
              [] e.state = "error" -> "error"
              [] OTHER -> "streaming",
   eventType |-> "chat",
   content |-> IF e.errorMessage # "none" THEN e.errorMessage ELSE e.text,
   sessionKey |-> e.sessionKey,
   inputTokens |-> IF e.state = "final" THEN e.usage ELSE "none",
   outputTokens |-> IF e.state = "final" THEN e.usage ELSE "none",
   stopReason |-> IF e.state = "final" THEN e.stopReason ELSE "none"]

(* event-parser.ts:130, `event.data.phase`: a TypeError when data is       *)
(* undefined or null                                                       *)
Thrown == [id |-> <<>>, runId |-> <<>>, seq |-> 0, type |-> "TypeError",
           eventType |-> "none", content |-> "none", sessionKey |-> "absent",
           inputTokens |-> "none", outputTokens |-> "none", stopReason |-> "none"]

(* event-parser.ts:121-164 agentEventToAction *)
agentEventToAction(e, runId, n) ==
  IF e.stream = "lifecycle" /\ e.data = "absent" THEN Thrown ELSE
  [id |-> ActionId(runId, n),
   runId |-> runId,
   seq |-> n,
   type |-> CASE e.stream = "lifecycle" /\ e.phase = "start" -> "start"
              [] e.stream = "lifecycle" /\ e.phase = "end" -> "complete"
              [] e.stream # "lifecycle" /\ e.dataType = "tool_use" -> "tool_call"
              [] e.stream # "lifecycle" /\ e.dataType = "tool_result" -> "tool_result"
              [] OTHER -> "streaming",
   eventType |-> "agent",
   content |-> CASE e.stream = "lifecycle" -> "none"
                 [] e.dataType = "tool_use" -> "Tool"
                 [] OTHER -> e.text,
   sessionKey |-> IF e.sessionKey # "absent" THEN e.sessionKey ELSE e.stream,
   inputTokens |-> "none", outputTokens |-> "none", stopReason |-> "none"]

NoAction == [id |-> <<>>, runId |-> <<>>, seq |-> 0, type |-> "none",
             eventType |-> "none", content |-> "none", sessionKey |-> "absent",
             inputTokens |-> "none", outputTokens |-> "none", stopReason |-> "none"]

(* event-parser.ts:21-82 parseEventFrame: the action of the frame, or      *)
(* NoAction where it returns null                                          *)
parseEventFrame(e, runId, n) ==
  CASE e.event \in {"health", "tick", "presence"} -> NoAction
    [] e.event = "chat" /\ Truthy(e.payload) -> chatEventToAction(e, runId, n)
    [] e.event = "agent" /\ Truthy(e.payload) /\ e.stream = "lifecycle" ->
         agentEventToAction(e, runId, n)
    [] e.event = "agent" /\ Truthy(e.payload) /\ e.stream = "assistant"
         /\ e.text # "none" -> agentEventToAction(e, runId, n)
    [] e.event = "agent" /\ Truthy(e.payload)
         /\ e.dataType \in {"tool_use", "tool_result"} -> agentEventToAction(e, runId, n)
    [] OTHER -> NoAction

(* one call of parseEventFrame, what it returns or throws recorded *)
NotCalled == [id |-> <<>>, runId |-> <<>>, seq |-> 0, type |-> "notcalled",
              eventType |-> "none", content |-> "none", sessionKey |-> "absent",
              inputTokens |-> "none", outputTokens |-> "none", stopReason |-> "none"]

(* the `session` of the ParsedEvent: `undefined` is NoSession               *)
NoSession == [key |-> "absent", status |-> "none"]

(* event-parser.ts:31-35, 46-50, 58-62 and 70-74: the session partial of   *)
(* the ParsedEvent parseEventFrame returns for e                           *)
sessionPartial(e) ==
  CASE parseEventFrame(e, <<>>, 0) \in {NoAction, Thrown} -> NoSession
    [] e.event = "chat" ->
         [key |-> e.sessionKey, status |-> IF e.state = "delta" THEN "thinking" ELSE "active"]
    [] e.sessionKey = "absent" -> NoSession
    [] e.stream = "lifecycle" ->
         [key |-> e.sessionKey, status |-> IF e.phase = "start" THEN "thinking" ELSE "active"]
    [] OTHER -> [key |-> e.sessionKey, status |-> "thinking"]

NoInput == [shape |-> Bare("tick", "absent"), runId |-> <<>>, seq |-> 0]

Parse ==
  /\ component = "normalizer"
  /\ parsed = NotCalled
  /\ parsed' = parseEventFrame(input.shape, input.runId, input.seq)
  /\ partial' = sessionPartial(input.shape)
  /\ UNCHANGED <<connVars, reqVars, component, mainVars, eventVars, actions, seq, input>>

(* ---------------------------- chat content ----------------------------- *)
(* Texts are sequences of characters.  A chat message is absent, a bare    *)
(* string, an object whose content is a list of blocks, an object whose    *)
(* content or text is a string, or something else (a number, an object     *)
(* with neither field)                                                     *)
Texts == {<<>>, <<"a">>, <<"b">>}

Blocks == [type : {"text", "tool_use"}, text : Texts]

BlockLists == UNION {[1..n -> Blocks] : n \in 0..MaxBlocks}

ChatMessage(kind, text, content) == [kind |-> kind, text |-> text, content |-> content]

NoMessage == ChatMessage("absent", <<>>, <<>>)

Messages ==
  {NoMessage, ChatMessage("other", <<>>, <<>>)}
    \cup {ChatMessage(kind, text, <<>>) : kind \in {"string", "contentString", "textField"},
                                      text \in Texts}
    \cup {ChatMessage("blocks", <<>>, content) : content \in BlockLists}

(* a string, or undefined *)
Content(text) == [defined |-> TRUE, text |-> text]
NoContent == [defined |-> FALSE, text |-> <<>>]

(* event-parser.ts:172-179: texts.push(b.text) for the blocks with type    *)
(* 'text', then texts.join('')                                             *)
RECURSIVE joinTexts(_)
joinTexts(blocks) ==
  IF blocks = <<>> THEN <<>>
  ELSE (IF Head(blocks).type = "text" THEN Head(blocks).text ELSE <<>>)
         \o joinTexts(Tail(blocks))

(* event-parser.ts:166-184 extractContent *)
extractContent(message) ==
  CASE message.kind = "string" -> Content(message.text)
    [] message.kind \in {"absent", "other"} -> NoContent
    [] message.kind = "blocks" ->
         IF \E i \in DOMAIN message.content : message.content[i].type = "text"
         THEN Content(joinTexts(message.content))
         ELSE NoContent
    [] message.kind \in {"contentString", "textField"} -> Content(message.text)

(* `if (event.message)`, `if (event.errorMessage)`: absent values and the   *)
(* empty string are falsy                                                  *)
TruthyChatMessage(message) ==
  message.kind # "absent" /\ ~(message.kind = "string" /\ message.text = <<>>)

(* event-parser.ts:110-116: the content chatEventToAction gives the action *)
(* of a chat payload with this message and errorMessage                    *)
chatContent(message, errorMessage) ==
  IF errorMessage.defined /\ errorMessage.text # <<>> THEN errorMessage
  ELSE IF TruthyChatMessage(message) THEN extractContent(message)
  ELSE NoContent

(* one chat payload normalized, the content of its action recorded *)
NoContentYet == [called |-> FALSE, content |-> NoContent]

Normalize ==
  /\ component = "content"
  /\ ~parsed.called
  /\ parsed' = [called |-> TRUE, content |-> chatContent(input.message, input.errorMessage)]
  /\ UNCHANGED <<connVars, reqVars, component, mainVars, eventVars, actions, seq, input,
                 partial>>

(* ----------------------------- session keys ---------------------------- *)
(* protocol.ts:172-185 (and part_011:25-38).  A string is a sequence of    *)
(* symbols: ":" and pieces of text that hold no colon.                     *)
RECURSIVE split(_, _)
split(str, piece) ==
  IF str = <<>> THEN <<piece>>
  ELSE IF Head(str) = ":" THEN <<piece>> \o split(Tail(str), <<>>)
  ELSE split(Tail(str), Append(piece, Head(str)))

RECURSIVE join(_)
join(parts) ==
  IF parts = <<>> THEN <<>>
  ELSE IF Len(parts) = 1 THEN Head(parts)
  ELSE Head(parts) \o <<":">> \o join(Tail(parts))

(* parts.slice(n): the elements from index n (counted from 0) on *)
slice(parts, n) == SubSeq(parts, n + 1, Len(parts))

(* parts[n] || 'unknown': a missing element and the empty string are falsy *)
OrUnknown(parts, n) ==
  IF n + 1 <= Len(parts) /\ parts[n + 1] # <<>> THEN parts[n + 1] ELSE <<"unknown">>

(* the relation kind is left out of the recipient *)
parseSessionKeyBare(key) ==
  LET parts == split(key, <<>>) IN
    [agentId |-> OrUnknown(parts, 1),
     platform |-> OrUnknown(parts, 2),
     recipient |-> join(slice(parts, 4)),
     isGroup |-> Len(parts) >= 4 /\ parts[4] \in {<<"group">>, <<"channel">>}]

parseSessionKey(key) ==
  LET parts == split(key, <<>>) IN
    [agentId |-> OrUnknown(parts, 1),
     platform |-> OrUnknown(parts, 2),
     recipient |-> join(slice(parts, 3)),
     isGroup |-> Len(parts) >= 4 /\ parts[4] \in {<<"group">>, <<"channel">>}]

(* the keys of the documented grammar                                      *)
(* agent:<agentId>:<platform>:<relationKind>:<recipient>, and arbitrary    *)
(* strings of at most MaxKey symbols                                       *)
RelationKinds == {<<"channel">>, <<"group">>, <<"dm">>, <<"thread">>, <<"subagent">>}
Names == {<<"kev">>, <<"unknown">>, <<"web", "chat">>}
Recipients == {<<"u1">>, <<"u1", ":", "u2">>, <<"group">>}

WellFormedKey(agentId, platform, kind, recipient) ==
  join(<<<<"agent">>, agentId, platform, kind, recipient>>)

WellFormedKeys ==
  {WellFormedKey(agentId, platform, kind, recipient) :
     agentId \in Names, platform \in Names, kind \in RelationKinds, recipient \in Recipients}

AnyStrings == UNION {[1..n -> {":", "agent", "x", "group"}] : n \in 0..MaxKey}

NoKeyYet == [called |-> FALSE, key |-> parseSessionKey(<<>>)]

ParseKey ==
  /\ component = "keys"
  /\ ~parsed.called
  /\ parsed' = [called |-> TRUE, key |-> parseSessionKey(input)]
  /\ UNCHANGED <<connVars, reqVars, component, mainVars, eventVars, actions, seq, input,
                 partial>>

(* --------------------------- session listings -------------------------- *)
(* renderer/gateway-utils.ts:24-71 (and part_011:40-57) parseGatewaySession *)
(* Date.now() at the listings, in ms, and the ages a session may have      *)
Now == 1000000
Ages == {0, 59999, 60000, 299999, 300000}

(* a listed session: `updatedAt` 0 and `outputTokens` -1 are absent fields *)
RawSessions ==
  [abortedLastRun : BOOLEAN,
   updatedAt : {0} \cup {Now - age : age \in Ages},
   outputTokens : -1..MaxTokens]

(* the abort flag is looked at after the age *)
parseGatewaySessionAgeFirst(raw, now) ==
  LET ageMs == now - raw.updatedAt IN
    CASE ageMs < 60000 /\ raw.outputTokens > 0 -> "working"
      [] raw.abortedLastRun -> "error"
      [] ageMs < 300000 -> "idle"
      [] OTHER -> "stopped"

(* the status parseGatewaySession gives the session *)
parseGatewaySession(raw, now) ==
  LET ageMs == now - raw.updatedAt IN
    CASE raw.abortedLastRun -> "error"
      [] ageMs < 60000 /\ raw.outputTokens > 0 -> "working"
      [] ageMs < 300000 -> "idle"
      [] OTHER -> "stopped"

NoListing ==
  [raw |-> [abortedLastRun |-> FALSE, updatedAt |-> 0, outputTokens |-> -1],
   now |-> 0, before |-> -1]

(* App.tsx:83 and 120: a listing arrives and its session is parsed; the    *)
(* output tokens the previous listing reported are kept as history         *)
ListSessions(raw, now) ==
  /\ component = "listing"
  /\ parsed.listings < MaxListings
  /\ input' = [raw |-> raw, now |-> now, before |-> input.raw.outputTokens]
  /\ parsed' = [listings |-> parsed.listings + 1, status |-> parseGatewaySession(raw, now)]
  /\ UNCHANGED <<connVars, reqVars, component, mainVars, eventVars, actions, seq, partial>>

(* --------------------------- session list order ------------------------ *)
(* renderer/App.tsx:78-89 refreshSessions and 119-124 the onSessionsData   *)
(* handler.  A session key is a sequence of letters; a listing is a        *)
(* sequence of raw sessions with distinct keys.                            *)
Letters == {"a", "b"}
ListedKeys == {<<"a">>, <<"a", "b">>, <<"b">>}
Stamps == {0, Now - 60000, Now}

ListedRaw(key, updatedAt) ==
  [key |-> key, abortedLastRun |-> FALSE, updatedAt |-> updatedAt, outputTokens |-> -1]

RawListings ==
  {l \in UNION {[1..n -> {ListedRaw(k, u) : k \in ListedKeys, u \in Stamps}] :
                  n \in 0..MaxSessions} :
     \A i, j \in DOMAIN l : i # j => l[i].key # l[j].key}

(* gateway-utils.ts:47-70: the fields of the SessionInfo the list is       *)
(* ordered by and shown with                                               *)
SessionInfo(raw, now) ==
  [key |-> raw.key, status |-> parseGatewaySession(raw, now), updatedAt |-> raw.updatedAt]

(* rawSessions.map(parseGatewaySession) *)
mapSessions(raws, now) == [i \in DOMAIN raws |-> SessionInfo(raws[i], now)]

(* Array.prototype.sort is stable: with the comparator                     *)
(* (a, b) => (b.updatedAt || 0) - (a.updatedAt || 0) the later updatedAt   *)
(* comes first and equal ones keep their order in the listing              *)
RECURSIVE insertByUpdatedAt(_, _)
insertByUpdatedAt(x, sorted) ==
  IF sorted = <<>> THEN <<x>>
  ELSE IF Head(sorted).updatedAt > x.updatedAt
       THEN <<Head(sorted)>> \o insertByUpdatedAt(x, Tail(sorted))
       ELSE <<x>> \o sorted

RECURSIVE sortSessions(_)
sortSessions(sessions) ==
  IF sessions = <<>> THEN <<>>
  ELSE insertByUpdatedAt(Head(sessions), sortSessions(Tail(sessions)))

NoSessions ==
  [listings |-> 0, sessions |-> <<>>, before |-> <<>>, connectionStatus |-> "disconnected"]

(* setState(prev => ({ ...prev, sessions })): the list the views read; the *)
(* list it replaces is kept as history                                     *)
setSessions(rawSessions, now, connectionStatus) ==
  /\ parsed.listings < MaxListings
  /\ input' = rawSessions
  /\ parsed' = [listings |-> parsed.listings + 1,
                sessions |-> sortSessions(mapSessions(rawSessions, now)),
                before |-> parsed.sessions,
                connectionStatus |-> connectionStatus]
  /\ UNCHANGED <<connVars, reqVars, component, mainVars, eventVars, actions, seq, partial>>

(* App.tsx:78-89: the answer to the sessions request; a failed request     *)
(* (result.ok false, or no data) leaves the list as it is                  *)
RefreshSessions(result, now) ==
  /\ component = "ordering"
  /\ IF result.ok THEN setSessions(result.data, now, parsed.connectionStatus)
     ELSE UNCHANGED vars

(* App.tsx:119-124: a listing pushed by the main process; the handler also *)
(* sets connectionStatus to 'connected'                                    *)
SessionsData(rawSessions, now) ==
  /\ component = "ordering"
  /\ setSessions(rawSessions, now, "connected")

(* --------------------------- subagent parentage ------------------------ *)
(* part_001:182-210 parseSession / inferParent of the polling client,      *)
(* gateway-utils.ts:24-77 and part_011:40-86 parseGatewaySession.  Keys    *)
(* are strings of symbols as in parseSessionKey; "." is a symbol too.      *)
NoParent == <<>>

(* key.includes('subagent') *)
includes(key, symbol) == \E i \in DOMAIN key : key[i] = symbol

(* str.split('.')[0]: the text before the first '.' *)
RECURSIVE firstPiece(_)
firstPiece(str) ==
  IF str = <<>> \/ Head(str) = "." THEN <<>> ELSE <<Head(str)>> \o firstPiece(Tail(str))

(* part_001:202-210: the first session of the map, in insertion order,     *)
(* that is no subagent and has the agent named in the key                  *)
RECURSIVE inferParentOlder(_, _)
inferParentOlder(key, sessions) ==
  LET parts == split(key, <<>>)
      agent == IF Len(parts) >= 2 THEN firstPiece(parts[2]) ELSE <<>> IN
    IF sessions = <<>> THEN NoParent
    ELSE IF /\ Head(sessions).id # key
            /\ ~includes(Head(sessions).id, "subagent")
            /\ Head(sessions).agent = agent
         THEN Head(sessions).id
         ELSE inferParentOlder(key, Tail(sessions))

(* part_001:197 *)
parseSessionParent(raw, sessions) ==
  IF raw.parentSession # NoParent THEN raw.parentSession
  ELSE IF includes(raw.key, "subagent") THEN inferParentOlder(raw.key, sessions)
  ELSE NoParent

(* gateway-utils.ts:73-77: inferParent returns undefined *)
inferParent(key, parts) == NoParent

(* gateway-utils.ts:64 *)
rendererParent(raw) ==
  IF includes(raw.key, "subagent") THEN inferParent(raw.key, split(raw.key, <<>>))
  ELSE NoParent

(* part_011:76: isSubagent ? (raw.spawnedBy || undefined) : undefined *)
listedParent(raw) ==
  IF includes(raw.key, "subagent") THEN raw.parentSession ELSE NoParent

(* the sessions the client knows when the new one arrives; `lastAction` is *)
(* the time of the latest action seen for the session, -1 when none        *)
MainKey(agent) == <<"agent", ":", agent, ":", "main">>
KnownKeys ==
  {MainKey("kev"), MainKey("rex"), <<"agent", ":", "kev", ":", "subagent", ":", "u1">>}
ActionTimes == {-1, Now - 20000, Now - 5000, Now - 1000}

KnownSession(id, lastAction) ==
  [id |-> id, agent |-> OrUnknown(split(id, <<>>), 1), lastAction |-> lastAction]

KnownSessions ==
  {l \in UNION {[1..n -> {KnownSession(k, at) : k \in KnownKeys, at \in ActionTimes}] :
                  n \in 0..MaxSessions} :
     \A i, j \in DOMAIN l : i # j => l[i].id # l[j].id}

(* the arriving session: its key, its explicit parent reference            *)
(* (parentSession / spawnedBy, NoParent when absent)                       *)
ArrivingKeys ==
  {<<"agent", ":", "kev", ":", "subagent", ":", "u2">>,
   <<"agent", ":", "kev", ".", "1", ":", "subagent", ":", "u2">>,
   <<"agent", ":", "zed", ":", "subagent", ":", "u2">>,
   MainKey("zed")}

ArrivingSessions == [key : ArrivingKeys, parentSession : {NoParent, MainKey("rex")}]

NoParentYet == [by |-> "nobody", parentSession |-> NoParent]

(* the session is parsed by one of the three parsers *)
ParseSessionOlder ==
  /\ component = "parentage"
  /\ parsed.by = "nobody"
  /\ parsed' = [by |-> "parseSession",
                parentSession |-> parseSessionParent(input.raw, input.sessions)]
  /\ UNCHANGED <<connVars, reqVars, component, mainVars, eventVars, actions, seq, input,
                 partial>>

ParseSessionRenderer ==
  /\ component = "parentage"
  /\ parsed.by = "nobody"
  /\ parsed' = [by |-> "renderer", parentSession |-> rendererParent(input.raw)]
  /\ UNCHANGED <<connVars, reqVars, component, mainVars, eventVars, actions, seq, input,
                 partial>>

ParseSessionListed ==
  /\ component = "parentage"
  /\ parsed.by = "nobody"
  /\ parsed' = [by |-> "listed", parentSession |-> listedParent(input.raw)]
  /\ UNCHANGED <<connVars, reqVars, component, mainVars, eventVars, actions, seq, input,
                 partial>>

(* The reconciler's collection, a map keyed by the id of the action: an    *)
(* action replaces the record that has its id                              *)
upsert(collection, action) ==
  {a \in collection : a.id # action.id} \cup {action}

(* the gateway pushes one event of run runId, numbered after the previous  *)
(* one, and the reconciler files what the normalizer makes of it           *)
ApplyEvent(e, runId) ==
  /\ component = "reconciler"
  /\ seq < MaxSeq
  /\ seq' = seq + 1
  /\ actions' = IF parseEventFrame(e, runId, seq + 1) = NoAction
                THEN actions
                ELSE upsert(actions, parseEventFrame(e, runId, seq + 1))
  /\ UNCHANGED <<connVars, reqVars, component, mainVars, eventVars, input, parsed, partial>>

(* protocol.ts:112-118 ExecOutputEvent: one chunk of the output of a       *)
(* process, pushed in an event frame named exec.output                     *)
Chunks == {"c1", "c2"}

ExecOutputFrame(stream, output) ==
  [event |-> "exec.output", payload |-> "object", data |-> "absent", state |-> "none",
   sessionKey |-> "absent", usage |-> "none", stopReason |-> "none", stream |-> stream,
   phase |-> "none", dataType |-> "none", text |-> output, errorMessage |-> "none"]

ExecFrames == {ExecOutputFrame(stream, output) : stream \in {"stdout", "stderr"}, output \in Chunks}

(* the gateway pushes one chunk of the process of run runId and the        *)
(* reconciler files what the normalizer makes of it; the chunks fed are    *)
(* kept as history                                                         *)
ApplyExecOutput(e, runId) ==
  /\ component = "exec"
  /\ seq < MaxSeq
  /\ seq' = seq + 1
  /\ actions' = IF parseEventFrame(e, runId, seq + 1) = NoAction
                THEN actions
                ELSE upsert(actions, parseEventFrame(e, runId, seq + 1))
  /\ input' = Append(input, [runId |-> runId, seq |-> seq + 1, output |-> e.text])
  /\ UNCHANGED <<connVars, reqVars, component, mainVars, eventVars, parsed, partial>>

(* ====================================================================== *)
(* Event dispatch: part_001:430-448 and 504-510, gateway-client.ts:177-180 *)
(* ====================================================================== *)
(* What an event listener does when it is called with a frame: it         *)
(* returns, it throws, or it calls the unregister handle onEvent()         *)
(* returned for the callback `whom` (itself or another one) and returns.   *)
Unregisters(k) == [does |-> "unregisters", whom |-> k]

Faults == {Returns, Throws}
Behaviours == Faults \cup {Unregisters(k) : k \in Listeners}

(* part_001:507-508: idx = indexOf(cb); if (idx >= 0) splice(idx, 1) *)
RECURSIVE splice(_, _)
splice(array, cb) ==
  IF array = <<>> THEN <<>>
  ELSE IF Head(array) = cb THEN Tail(array)
  ELSE <<Head(array)>> \o splice(Tail(array), cb)

(* the array after the callback called with behaviour b has run *)
AfterCall(array, b) == IF b.does = "unregisters" THEN splice(array, b.whom) ELSE array

(* part_001:445-447: for (const listener of this.eventListeners) { try {   *)
(* listener(event) } catch {} }: the iterator reads the live array by      *)
(* index, i is the index of the next element (from 1)                      *)
RECURSIVE dispatchLoop(_, _, _, _, _)
dispatchLoop(array, i, plan, frame, done) ==
  IF i > Len(array) THEN [array |-> array, calls |-> done]
  ELSE dispatchLoop(AfterCall(array, plan[array[i]]), i + 1, plan, frame,
                    Append(done, [to |-> array[i], frame |-> frame]))

(* the map forgets what it knew whenever it learns *)
learnForgetting(map, ev) ==
  IF /\ ev.shape.event \in {"chat", "agent"}
     /\ ev.shape.payload \in {"primitive", "object"}
     /\ ev.runId # <<>> /\ ev.shape.sessionKey # "absent"
  THEN [r \in DOMAIN map |-> IF r = ev.runId THEN ev.shape.sessionKey ELSE "absent"]
  ELSE map

(* part_001:431-443: the sessionKey of a chat or agent payload that has a  *)
(* runId and a sessionKey is recorded for the runId; ev is the frame, with *)
(* the runId and seq of its payload (<<>> where the payload has no runId)  *)
learn(map, ev) ==
  IF /\ ev.shape.event \in {"chat", "agent"}
     /\ ev.shape.payload \in {"primitive", "object"}
     /\ ev.runId # <<>> /\ ev.shape.sessionKey # "absent"
  THEN [map EXCEPT ![ev.runId] = ev.shape.sessionKey]
  ELSE map

(* part_001:518-520 resolveSessionKey: "absent" is undefined *)
resolveSessionKey(runId) == runSessionMap[runId]

(* every frame is handed to the listeners twice *)
handleEventRepeating(plan, frame, ev) ==
  LET d == dispatchLoop(eventListeners, 1, plan, frame, <<>>) IN
    /\ runSessionMap' = learn(runSessionMap, ev)
    /\ eventListeners' = d.array
    /\ calls' = d.calls \o d.calls
    /\ handed' = IF d.calls # <<>> THEN ev ELSE handed

(* part_001:430-448 handleEvent; plan[l] is what callback l does when it   *)
(* is called with this frame                                               *)
handleEvent(plan, frame, ev) ==
  LET d == dispatchLoop(eventListeners, 1, plan, frame, <<>>) IN
    /\ runSessionMap' = learn(runSessionMap, ev)
    /\ eventListeners' = d.array
    /\ calls' = d.calls
    /\ handed' = IF d.calls # <<>> THEN ev ELSE handed

(* part_001:338-372 and 407-416: the 'message' handler of socket s for an  *)
(* event frame other than connect.challenge: handled only while _connected *)
RecvFrame(s, behaviours, ev) ==
  /\ component = "reconnecting"
  /\ Receiving(s) /\ Quiet
  /\ evSeq < MaxEvents
  /\ evSeq' = evSeq + 1
  /\ IF connected
     THEN \E plan \in [Listeners -> behaviours] : handleEvent(plan, evSeq + 1, ev)
     ELSE UNCHANGED <<eventListeners, calls, runSessionMap, handed>>
  /\ scen' = Hist("scenario", "off", scen)
  /\ emits' = Hist("status", <<>>, emits)
  /\ UNCHANGED <<statusListeners, recording, urlValid, component, mainVars, storeVars,
                 statusLog, lastStatus>>
  /\ UNCHANGED connVarsButScen
  /\ UNCHANGED reqVars

(* an event the client and the normalizer know nothing about *)
OtherEvent == [shape |-> Bare("exec.started", "absent"), runId |-> <<>>, seq |-> 0]

(* the same handler, for a frame whose content is not looked at *)
RecvEvent(s, behaviours) == RecvFrame(s, behaviours, OtherEvent)

(* the frames the gateway pushes to a connected client: chat and agent     *)
(* events of a run with or without a sessionKey, and system events         *)
SessionKeys == {"s1", "s2"}

PushedShapes ==
  {[ChatFrame("delta") EXCEPT !.sessionKey = k] : k \in SessionKeys \cup {"absent"}}
    \cup {[AgentFrame("lifecycle", "start", "none", "none") EXCEPT !.sessionKey = k] :
            k \in {"s1", "absent"}}
    \cup {Bare(event, payload) : event \in {"health", "tick", "presence"},
                                payload \in {"absent", "object"}}

PushedFrames == [shape : PushedShapes, runId : RunIds, seq : {1}]

(* part_001:506-509: the application calls the handle onEvent() returned   *)
(* for callback k, between two frames                                      *)
Unsubscribe(k) ==
  /\ component = "reconnecting"
  /\ eventListeners' = splice(eventListeners, k)
  /\ UNCHANGED <<evSeq, calls, runSessionMap, handed>>
  /\ scen' = Hist("scenario", "off", scen)
  /\ emits' = Hist("status", <<>>, emits)
  /\ UNCHANGED <<statusListeners, recording, urlValid, component, mainVars, storeVars,
                 statusLog, lastStatus>>
  /\ UNCHANGED connVarsButScen
  /\ UNCHANGED reqVars

(* part_001:504-510 onEvent(cb) and the handle it returns.  `input` is     *)
(* history: the callback given to each onEvent() call, in call order;      *)
(* `partial` is history: the onEvent() calls whose handle has been called  *)
(* part_001:505: this.eventListeners.push(cb) *)
OnEvent(cb) ==
  /\ component = "handles"
  /\ Len(input) < MaxRegistrations
  /\ eventListeners' = Append(eventListeners, cb)
  /\ input' = Append(input, cb)
  /\ UNCHANGED <<connVars, reqVars, component, mainVars, actions, seq, parsed, partial,
                 evSeq, calls, runSessionMap, handed>>

(* part_001:506-509: the handle returned by the r-th onEvent() call is     *)
(* called                                                                  *)
CallHandle(r) ==
  /\ component = "handles"
  /\ r \in DOMAIN input
  /\ eventListeners' = splice(eventListeners, input[r])
  /\ partial' = partial \cup {r}
  /\ UNCHANGED <<connVars, reqVars, component, mainVars, actions, seq, input, parsed,
                 evSeq, calls, runSessionMap, handed>>

(* gateway-client.ts:179: for (const cb of this.eventListeners) cb(msg),   *)
(* inside the try of handleRawMessage: the first callback that throws ends *)
(* the loop                                                               *)
RECURSIVE mainDispatchLoop(_, _, _, _, _)
mainDispatchLoop(array, i, plan, frame, done) ==
  IF i > Len(array) THEN done
  ELSE IF plan[array[i]] = Throws THEN Append(done, [to |-> array[i], frame |-> frame])
  ELSE mainDispatchLoop(array, i + 1, plan, frame,
                        Append(done, [to |-> array[i], frame |-> frame]))

(* the handleRawMessage listeners of the socket run one after the other *)
RECURSIVE mainDispatch(_, _, _)
mainDispatch(times, plan, frame) ==
  IF times = 0 THEN <<>>
  ELSE mainDispatchLoop(eventListeners, 1, plan, frame, <<>>)
         \o mainDispatch(times - 1, plan, frame)

(* gateway-client.ts:87-141 and 158-182: the 'message' listeners of socket *)
(* s for an event frame other than connect.challenge: onFirstMessage does  *)
(* nothing with it, each handleRawMessage listener dispatches it           *)
MainRecvEvent(s) ==
  /\ component = "main"
  /\ MainReceiving(s) /\ MainQuiet
  /\ evSeq < MaxEvents
  /\ evSeq' = evSeq + 1
  /\ IF mRaw[s] > 0
     THEN \E plan \in [Listeners -> Faults] : calls' = mainDispatch(mRaw[s], plan, evSeq + 1)
     ELSE UNCHANGED calls
  /\ UNCHANGED <<eventListeners, runSessionMap, handed>>
  /\ UNCHANGED <<connVars, reqVars, component, storeVars, mainVars>>

InitStore ==
  /\ actions = {}
  /\ seq = 0

(* parseEventFrame about to be called with one of `frames` *)
InitParser(frames) ==
  /\ input \in frames
  /\ parsed = NotCalled
  /\ partial = NoSession

(* part_001:504-510 and gateway-client.ts:229 onEvent(cb), called for n    *)
(* callbacks before the first frame arrives                                *)
InitListeners(n) ==
  /\ eventListeners = [i \in 1..n |-> i]
  /\ evSeq = 0
  /\ calls = <<>>
  /\ runSessionMap = [r \in RunIds |-> "absent"]
  /\ handed = OtherEvent

InitParts == InitClient /\ InitReq /\ InitMain /\ InitStore

InitCore == InitParts /\ InitParser({NoInput})

(* every component as constructed, no event listener registered *)
InitAll == InitCore /\ InitListeners(0)

(* the reconnecting client, the connect() promises observed *)
Init ==
  /\ InitAll /\ component = "reconnecting"
  /\ recording = {"promises", "status", "messages"} /\ InitStatus(<<>>)

(* the reconnecting client, the reconnection history observed *)
InitReconnect ==
  /\ InitAll /\ component = "reconnecting"
  /\ recording = {"reconnect"} /\ InitStatus(<<>>)

(* the reconnecting client, onConnectionChange(cb) called before           *)
(* connect(): part_001:512-514                                             *)
InitListening ==
  /\ InitAll /\ component = "reconnecting"
  /\ recording = {"scenario", "promises"} /\ InitStatus(<<Returns>>)

(* the reconnecting client, no history observed *)
InitRequests ==
  /\ InitAll /\ component = "reconnecting"
  /\ recording = {} /\ InitStatus(<<>>)

(* either client, no history observed *)
InitEither ==
  /\ InitAll /\ component \in {"reconnecting", "main"}
  /\ recording = {} /\ InitStatus(<<>>)

(* the reconciler alone *)
InitReconciler ==
  /\ InitAll /\ component = "reconciler"
  /\ recording = {} /\ InitStatus(<<>>)

(* ------------------------------ specifications ------------------------ *)
(* `strict`: the server follows the protocol (MayChallenge, Owed)          *)
(* the client and its environment, creating at most maxSockets sockets *)
(* the client until a reconnect delay has elapsed: every connect() call is *)
(* the application's                                                       *)
NextFirst(maxSockets, strict) ==
  \/ Connect(maxSockets)
  \/ \E s \in Sockets : SocketOpen(s)
  \/ \E s \in Sockets : RecvChallenge(s, strict)
  \/ \E s \in Sockets, f \in ResFrames : RecvRes(s, f, strict)
  \/ \E s \in Sockets : HandshakeTimeout(s)
  \/ \E s \in Sockets : SocketError(s)
  \/ \E s \in Sockets : SocketFail(s)
  \/ \E s \in Sockets, code \in CloseCodes : SocketClose(s, code)
  \/ Disconnect

NextConn(maxSockets, strict) ==
  \/ NextFirst(maxSockets, strict)
  \/ ReconnectFire(maxSockets)

NextReq(maxSockets, maxReq, strict) ==
  \/ NextConn(maxSockets, strict)
  \/ Request(maxReq)
  \/ \E id \in ReqIds : RequestTimeout(id)

(* the connection alone, the connect() promises observed *)
Spec == Init /\ [][NextConn(MaxSockets, TRUE)]_vars

(* the connection alone, the reconnection history observed *)
SpecReconnect == InitReconnect /\ [][NextConn(MaxSockets, TRUE)]_vars

(* the first connection, with a status listener registered before         *)
(* connect()                                                               *)
SpecListening == InitListening /\ [][NextFirst(ListenSockets, TRUE)]_vars

(* request() calls on one connection, of either client *)
NextEither ==
  \/ NextFirst(ReqSockets, TRUE)
  \/ Request(MaxReq)
  \/ \E id \in ReqIds : RequestTimeout(id)
  \/ NextMain(TRUE)

SpecReq == InitEither /\ [][NextEither]_vars

(* one request() call across connections *)
SpecLate == InitRequests /\ [][NextReq(MaxSockets, LateReq, TRUE)]_vars

(* The event loop runs every timer that is due, and the events a socket    *)
(* queued for the end of the turn: a callback that stays due is run.       *)
TimersFire ==
  \/ \E id \in ReqIds : RequestTimeout(id)
  \/ \E s \in Sockets : HandshakeTimeout(s)
  \/ \E s \in Sockets : SocketFail(s)

(* one request() call across connections, the timers being run *)
SpecFair ==
  /\ InitRequests
  /\ [][NextReq(MaxSockets, LateReq, TRUE)]_vars
  /\ WF_vars(TimersFire)

(* request() calls on one connection of the reconnecting client, the      *)
(* connect() promises and the broadcasts observed                          *)
NextCalls(strict) ==
  \/ NextFirst(ReqSockets, strict)
  \/ Request(MaxReq)
  \/ \E id \in ReqIds : RequestTimeout(id)

SpecCalls == Init /\ [][NextCalls(TRUE)]_vars

(* event frames pushed to either client, whose listeners return or throw *)
InitDispatch ==
  /\ InitCore /\ InitListeners(MaxListeners)
  /\ component \in {"reconnecting", "main"}
  /\ recording = {} /\ InitStatus(<<>>)

NextDispatch ==
  \/ NextFirst(DispatchSockets, TRUE)
  \/ \E s \in Sockets : RecvEvent(s, Faults)
  \/ NextMain(TRUE)
  \/ \E s \in MSockets : MainRecvEvent(s)

SpecDispatch == InitDispatch /\ [][NextDispatch]_vars

(* event frames pushed to the reconnecting client, whose listeners may     *)
(* unregister listeners                                                    *)
InitSubscribed ==
  /\ InitCore /\ InitListeners(MaxListeners)
  /\ component = "reconnecting"
  /\ recording = {} /\ InitStatus(<<>>)

NextSubscribed ==
  \/ NextFirst(DispatchSockets, TRUE)
  \/ \E s \in Sockets : RecvEvent(s, Behaviours)
  \/ \E k \in Listeners : Unsubscribe(k)

SpecSubscribed == InitSubscribed /\ [][NextSubscribed]_vars

(* the same, with a server that also sends Responses nobody asked for *)
NextUnsolicited ==
  \/ NextCalls(TRUE)
  \/ \E s \in Sockets, f \in ResFrames : RecvRes(s, f, FALSE)

SpecUnsolicited == Init /\ [][NextUnsolicited]_vars

(* the first connection, with MaxSubscribers status listeners registered  *)
(* before connect(), each of which returns or throws when it is called     *)
InitSubscribers ==
  /\ InitCore /\ InitListeners(0) /\ component = "reconnecting"
  /\ recording = {}
  /\ \E cbs \in [1..MaxSubscribers -> {Returns, Throws}] : InitStatus(cbs)

SpecSubscribers == InitSubscribers /\ [][NextFirst(ListenSockets, TRUE)]_vars

(* parseEventFrame called with any frame *)
InitParse ==
  /\ InitParts /\ InitListeners(0) /\ component = "normalizer"
  /\ recording = {} /\ InitStatus(<<>>)
  /\ InitParser([shape : AnyFrames, runId : RunIds, seq : {1}])

NextParse == Parse

SpecParse == InitParse /\ [][NextParse]_vars

(* chat, agent and system events pushed to the reconnecting client, whose  *)
(* listeners may unregister listeners                                      *)
NextRaw ==
  \/ NextFirst(DispatchSockets, TRUE)
  \/ \E s \in Sockets, ev \in PushedFrames : RecvFrame(s, Behaviours, ev)

SpecRaw == InitSubscribed /\ [][NextRaw]_vars

(* the same events pushed while the application makes requests; no event   *)
(* listener is registered                                                  *)
InitLearning ==
  /\ InitCore /\ InitListeners(0)
  /\ component = "reconnecting"
  /\ recording = {} /\ InitStatus(<<>>)

LearnFrames == {ev \in PushedFrames : ev.shape.event \in {"chat", "agent", "tick"}}

NextLearning ==
  \/ NextFirst(DispatchSockets, TRUE)
  \/ Request(LateReq)
  \/ \E id \in ReqIds : RequestTimeout(id)
  \/ \E s \in Sockets, ev \in LearnFrames : RecvFrame(s, {Returns}, ev)

SpecLearning == InitLearning /\ [][NextLearning]_vars

(* chatEventToAction called with any message *)
InitContent ==
  /\ InitParts /\ InitListeners(0) /\ component = "content"
  /\ recording = {} /\ InitStatus(<<>>)
  /\ input \in [message : Messages, errorMessage : {NoContent} \cup {Content(x) : x \in Texts}]
  /\ parsed = NoContentYet
  /\ partial = NoSession

NextContent == Normalize

SpecContent == InitContent /\ [][NextContent]_vars

(* parseSessionKey called with any string *)
InitKeys ==
  /\ InitParts /\ InitListeners(0) /\ component = "keys"
  /\ recording = {} /\ InitStatus(<<>>)
  /\ input \in WellFormedKeys \cup AnyStrings
  /\ parsed = NoKeyYet
  /\ partial = NoSession

NextKeys == ParseKey

SpecKeys == InitKeys /\ [][NextKeys]_vars

(* successive listings of one session *)
InitListing ==
  /\ InitParts /\ InitListeners(0) /\ component = "listing"
  /\ recording = {} /\ InitStatus(<<>>)
  /\ input = NoListing
  /\ parsed = [listings |-> 0, status |-> "none"]
  /\ partial = NoSession

NextListing == \E raw \in RawSessions : ListSessions(raw, Now)

SpecListing == InitListing /\ [][NextListing]_vars

(* successive listings of the sessions *)
InitOrdering ==
  /\ InitParts /\ InitListeners(0) /\ component = "ordering"
  /\ recording = {} /\ InitStatus(<<>>)
  /\ input = <<>>
  /\ parsed = NoSessions
  /\ partial = NoSession

NextOrdering ==
  \/ \E ok \in BOOLEAN, data \in RawListings : RefreshSessions([ok |-> ok, data |-> data], Now)
  \/ \E rawSessions \in RawListings : SessionsData(rawSessions, Now)

SpecOrdering == InitOrdering /\ [][NextOrdering]_vars

(* a session arrives at a client that knows some sessions *)
InitParentage ==
  /\ InitParts /\ InitListeners(0) /\ component = "parentage"
  /\ recording = {} /\ InitStatus(<<>>)
  /\ input \in [sessions : KnownSessions, raw : ArrivingSessions]
  /\ parsed = NoParentYet
  /\ partial = NoSession

NextParentage == ParseSessionOlder \/ ParseSessionRenderer \/ ParseSessionListed

SpecParentage == InitParentage /\ [][NextParentage]_vars

(* output chunks of processes pushed to the reconciler *)
InitExec ==
  /\ InitParts /\ InitListeners(0) /\ component = "exec"
  /\ recording = {} /\ InitStatus(<<>>)
  /\ input = <<>>
  /\ parsed = NotCalled
  /\ partial = NoSession

NextExec == \E e \in ExecFrames, runId \in RunIds : ApplyExecOutput(e, runId)

SpecExec == InitExec /\ [][NextExec]_vars

(* event frames pushed on any socket of the reconnecting client, one      *)
(* listener registered, the handshakes of the sockets observed             *)
InitStale ==
  /\ InitCore /\ InitListeners(1)
  /\ component = "reconnecting"
  /\ recording = {"reconnect"} /\ InitStatus(<<>>)

NextStale ==
  \/ NextFirst(MaxSockets, TRUE)
  \/ \E s \in Sockets : RecvEvent(s, {Returns})

SpecStale == InitStale /\ [][NextStale]_vars

(* request() calls on one connection of either client, the timers of      *)
(* answered requests kept until they fire, and a server that may send a    *)
(* Response more than once                                                 *)
InitSettling ==
  /\ InitAll /\ component \in {"reconnecting", "main"}
  /\ recording = {"timers"} /\ InitStatus(<<>>)

NextSettling ==
  \/ NextEither
  \/ \E s \in Sockets, f \in ResFrames : RecvRes(s, f, FALSE)
  \/ \E s \in MSockets, f \in MainFrames : MainRecvRes(s, f, FALSE)

SpecSettling == InitSettling /\ [][NextSettling]_vars

(* registrations with onEvent() and calls of the handles it returned *)
InitHandles ==
  /\ InitParts /\ InitListeners(0) /\ component = "handles"
  /\ recording = {} /\ InitStatus(<<>>)
  /\ input = <<>>
  /\ parsed = NotCalled
  /\ partial = {}

NextHandles ==
  \/ \E cb \in Listeners : OnEvent(cb)
  \/ \E r \in 1..MaxRegistrations : CallHandle(r)

SpecHandles == InitHandles /\ [][NextHandles]_vars

(* events applied to the reconciler's collection *)
NextEvents == \E e \in FrameShapes, runId \in RunIds : ApplyEvent(e, runId)

SpecEvents == InitReconciler /\ [][NextEvents]_vars

(* ====================================================================== *)
(* Properties                                                             *)
(* ====================================================================== *)

(* C1: with a status listener registered before connect(), the run        *)
(* connect() -> socket open -> connect.challenge -> connect Request sent   *)
(* -> Response ok:true with a hello-ok payload leaves the listener with   *)
(* exactly the calls connecting, connected, resolves connect() with the    *)
(* server's HelloOk and leaves `connected` true.                           *)
C1_HandshakeRun ==
  scen = "done" =>
    /\ statusLog[1] = <<"connecting", "connected">>
    /\ connectPromise[1] = Resolved("server-hello")
    /\ connected

C1_Witness == scen = "done" /\ statusListeners = <<Returns>> /\ challenged[1]

(* C2: one client never owns more than one socket that was created and is *)
(* not yet closed.  Stated in its weakest form: sockets the client has     *)
(* already called close() on are not counted.                              *)
LiveSockets == {s \in Sockets : rs[s] \in {"connecting", "open"}}

C2_OneSocket == Cardinality(LiveSockets) <= 1

(* C3: a request is settled by the Response that carries its own id, in   *)
(* every arrival order and in both clients: resolved with that Response's  *)
(* payload, or, in the client of src/main/gateway-client.ts, with the      *)
(* whole Response frame when the frame has no payload; rejected with its   *)
(* error, or by its own timeout.                                           *)
Settled(c) == c.st \in {"resolved", "rejected"}

TimedOut(id) == ~reqTimer[id] /\ caller[id] = ReqRejected(id, "timed out")

clientState == <<ws, connected, connecting, reconnectTimer, timeout, connectPromise,
                 timersPending, statusLog, lastStatus, requestId, pendingRequests,
                 caller, reqTimer>>

C4_TimeoutStep(id) ==
  (id \in pendingRequests /\ RequestTimeout(id)) =>
    (caller'[id] = ReqRejected(id, "timed out") /\ id \notin pendingRequests')

C4_LateStep(s, f) ==
  (f.id \in ReqIds /\ TimedOut(f.id) /\ RecvRes(s, f, TRUE)) => UNCHANGED clientState

C4_TimeoutThenDrop ==
  [][/\ \A id \in ReqIds : C4_TimeoutStep(id)
     /\ \A s \in Sockets, f \in ResFrames : C4_LateStep(s, f)]_vars

(* C5: the collection holds at most one record per runId for the run's    *)
(* non-tool states.                                                        *)
ToolTypes == {"tool_call", "tool_result"}

RunRecords(runId) == {a \in actions : a.runId = runId /\ a.type \notin ToolTypes}

C5_OneRecordPerRun == \A runId \in RunIds : Cardinality(RunRecords(runId)) <= 1

(* C6: every connect() call that starts an attempt settles, no later than *)
(* its handshake timeout.  A pending attempt whose timeout was cleared and *)
(* whose socket is closed can be settled by no handler any more, so the    *)
(* claim requires that no such attempt exists.                             *)
C6_ConnectSettles ==
  \A s \in Sockets :
    (s <= nSockets /\ connectPromise[s].st = "pending") =>
      (timeout[s] \/ rs[s] # "closed")

(* C7: each handshake failure of an attempt still in flight (handshake    *)
(* timeout, socket error before hello-ok, Response ok:false while          *)
(* connecting) rejects that connect() promise, with the server's message   *)
(* when the server supplied one, broadcasts 'error' and leaves `connected` *)
(* false.                                                                  *)
HandshakeFailure(s) ==
  \/ HandshakeTimeout(s)
  \/ SocketError(s)
  \/ SocketFail(s)
  \/ \E f \in ResFrames : ~FrameOk(f) /\ connecting /\ RecvRes(s, f, TRUE)

C7_FailureStep(s) ==
  (connectPromise[s].st = "pending" /\ HandshakeFailure(s)) =>
    /\ connectPromise'[s].st = "rejected"
    /\ \E i \in DOMAIN emits' : emits'[i] = "error"
    /\ ~connected'

C7_HandshakeFailures == [][\A s \in Sockets : C7_FailureStep(s)]_vars

(* C8: a connect() call made while an attempt is in flight settles with   *)
(* the outcome of that attempt, and not before the attempt has completed.  *)
C8_CollapsedConnect ==
  \A s \in Sockets :
    collapsed[s] # NoCall =>
      /\ connectPromise[s].st # "pending"
      /\ collapsed[s] = connectPromise[s]

(* C9: a close event schedules an automatic reconnect only if the socket  *)
(* that closed had itself reached hello-ok and the code is not 1000.       *)
C9_ReconnectOnlyAfterHandshake ==
  lastClose.scheduled => (hs[lastClose.sock] /\ lastClose.code # CleanClose)

C11_PendingEndsWithConnection ==
  \A id \in pendingRequests : rs[reqSock[id]] # "closed"

(* C12: every request() call that registered a pending entry is eventually *)
(* resolved or rejected, whatever happens to its connection: no Response,  *)
(* the socket closing, disconnect(), a later reconnect.                    *)
C12_RequestSettles ==
  \A id \in ReqIds : (caller[id].st = "pending") ~> Settled(caller[id])

(* the request was rejected by its own timer after its socket had closed   *)
(* and a later connection was established                                  *)
C12_Witness ==
  /\ caller[1] = ReqRejected(1, "timed out")
  /\ reqSock[1] = 1
  /\ rs[1] = "closed"
  /\ ws = 2 /\ connected

(* C13: the ids request() allocates are strictly increasing in call order *)
(* and never reused, in both clients: the id a call draws is larger than   *)
(* every id drawn before, is the key of no pending entry, was handed to no *)
(* earlier call, and its text on the wire differs from the text of every   *)
(* earlier id and of every id the handshake's connect Request can carry.   *)
C13_RequestStep ==
  Request(MaxReq) =>
    /\ requestId' > requestId
    /\ requestId' \notin pendingRequests
    /\ caller[requestId'] = ReqIdle
    /\ \A i \in 1..requestId : RequestWireId(i) # RequestWireId(requestId')
    /\ \A ms \in ClockReadings : ConnectWireId(ms) # RequestWireId(requestId')

C13_MainStep ==
  (mainRequest \/ \E s \in MSockets : mFirst[s] /\ MainRecvChallenge(s, TRUE)) =>
    /\ mRequestId' > mRequestId
    /\ mRequestId' \notin mPending
    /\ mCaller[mRequestId'] = ReqIdle
    /\ mSock[mRequestId'] = 0
    /\ \A i \in 1..mRequestId : WireId(i) # WireId(mRequestId')
    /\ idNum(WireId(mRequestId')) = mRequestId'

C13_IdsNeverReused == [][C13_RequestStep /\ C13_MainStep]_vars

(* the connect Request took id 1 and the request() call that followed it   *)
(* took id 2, which is pending                                             *)
C13_Witness ==
  /\ component = "main"
  /\ mConnected
  /\ mRequestId = 2
  /\ mPending = {2}
  /\ mCaller[2] = ReqPending

(* C14: a request() call that fails, by a Response ok:false carrying its   *)
(* id or by its own timeout, is rejected and nothing else happens:         *)
(* `connected`, the socket and the status are unchanged, nothing is        *)
(* broadcast, no connect() promise is settled and every other pending      *)
(* entry stays pending.                                                    *)
C14_OnlyTheCall(id) ==
  /\ caller'[id].st = "rejected"
  /\ id \notin pendingRequests'
  /\ UNCHANGED <<connected, ws, rs, connectPromise, statusLog, lastStatus>>
  /\ emits' = <<>>
  /\ \A other \in pendingRequests \ {id} :
       other \in pendingRequests' /\ caller'[other] = caller[other]

C14_ResponseStep(s, f) ==
  (f.id \in pendingRequests /\ ~FrameOk(f) /\ RecvRes(s, f, TRUE)) => C14_OnlyTheCall(f.id)

C14_TimeoutStep(id) ==
  (id \in pendingRequests /\ RequestTimeout(id)) => C14_OnlyTheCall(id)

C14_FailureRejectsOnlyTheCall ==
  [][/\ \A s \in Sockets, f \in ResFrames : C14_ResponseStep(s, f)
     /\ \A id \in ReqIds : C14_TimeoutStep(id)]_vars

(* C16: in both clients every event frame that is dispatched reaches each  *)
(* registered listener, the listeners being called in registration order,  *)
(* whether or not a listener throws, for this frame and for the later      *)
(* ones.                                                                   *)
Called(cs, l) == \E i \in DOMAIN cs : cs[i].to = l

FirstCall(cs, l) ==
  CHOOSE i \in DOMAIN cs : cs[i].to = l /\ \A j \in DOMAIN cs : cs[j].to = l => i <= j

InRegistrationOrder(array, cs) ==
  /\ \A i \in DOMAIN array : Called(cs, array[i])
  /\ \A i, j \in DOMAIN array : i < j => FirstCall(cs, array[i]) < FirstCall(cs, array[j])

C16_Step ==
  /\ \A s \in Sockets :
       (connected /\ RecvEvent(s, Faults)) => InRegistrationOrder(eventListeners, calls')
  /\ \A s \in MSockets :
       (mRaw[s] > 0 /\ MainRecvEvent(s)) => InRegistrationOrder(eventListeners, calls')

C16_FaultsIsolated == [][C16_Step]_vars

(* C17: when listeners are unregistered while a frame is being dispatched, *)
(* every listener that was registered when the dispatch began and has not  *)
(* been unregistered receives the frame exactly once.                      *)
TimesCalled(cs, l) == Cardinality({i \in DOMAIN cs : cs[i].to = l})

Registered(array, l) == \E i \in DOMAIN array : array[i] = l

C17_Step(s) ==
  (connected /\ RecvEvent(s, Behaviours)) =>
    \A l \in Listeners :
      (Registered(eventListeners, l) /\ Registered(eventListeners', l)) =>
        TimesCalled(calls', l) = 1

C17_UnregisterMidDispatch == [][\A s \in Sockets : C17_Step(s)]_vars

(* C18: the frames are handed to the listeners in the order they were      *)
(* received, each one while it is being received and before the next one:  *)
(* a dispatch hands over the frame just received and no other, to no       *)
(* listener twice, and no other step calls a listener.                     *)
C18_Step ==
  /\ evSeq' \in {evSeq, evSeq + 1}
  /\ evSeq' = evSeq => calls' = calls
  /\ evSeq' # evSeq =>
       \/ calls' = calls /\ ~connected
       \/ /\ \A i \in DOMAIN calls' : calls'[i].frame = evSeq'
          /\ \A l \in Listeners : TimesCalled(calls', l) <= 1

Established(s) == ws = s /\ rs[s] = "open" /\ connected /\ ~connecting

C15_Step(s, f) ==
  (Established(s) /\ f.id \notin pendingRequests /\ RecvRes(s, f, FALSE)) =>
    /\ UNCHANGED <<pendingRequests, caller, calls, statusLog, lastStatus>>
    /\ emits' = <<>>

C15_UnmatchedIgnored == [][\A s \in Sockets, f \in ResFrames : C15_Step(s, f)]_vars

(* C19: every status is delivered to every registered status subscriber,  *)
(* so the subscribers registered before connect() have all received the    *)
(* same sequence of statuses, also when one of them throws.                *)
C19_SameSequence ==
  \A i, j \in DOMAIN statusLog : statusLog[i] = statusLog[j]

(* C20: parseEventFrame never throws: whatever the event name and the      *)
(* shape of the payload, the call returns a ParsedEvent or null.           *)
C20_NeverThrows == parsed # Thrown

(* the frames C21 speaks of: an event name the normalizer does not know,   *)
(* or a chat or agent payload that lacks a field its type requires         *)
(* (protocol.ts:80-100)                                                    *)
Malformed(e) ==
  \/ e.event \notin {"chat", "agent", "health", "tick", "presence"}
  \/ /\ e.event = "chat" /\ e.payload = "object"
     /\ e.state = "none" \/ e.sessionKey = "absent"
  \/ /\ e.event = "agent" /\ e.payload = "object"
     /\ e.stream = "none" \/ e.data = "absent"

(* C21: a frame with an unrecognized event name, and a chat or agent frame *)
(* whose payload is malformed, yields no update: parseEventFrame returns   *)
(* null, no action and no session partial.                                 *)
C21_MalformedNoUpdate ==
  parsed # NotCalled /\ Malformed(input.shape) => parsed = NoAction /\ partial = NoSession

(* C23: for every chat payload with state delta, final, aborted or error   *)
(* the action type is streaming, complete, aborted, error respectively,    *)
(* the session partial has key = sessionKey and status 'thinking' exactly  *)
(* when the state is delta ('active' otherwise), and inputTokens,          *)
(* outputTokens and stopReason are set only when the state is final.       *)
C23_ChatMapping ==
  LET e == input.shape IN
    parsed # NotCalled /\ e.event = "chat" /\ e.payload = "object" /\ e.state \in ChatStates =>
      /\ parsed.type = CASE e.state = "delta" -> "streaming"
                         [] e.state = "final" -> "complete"
                         [] e.state = "aborted" -> "aborted"
                         [] e.state = "error" -> "error"
      /\ partial.key = e.sessionKey
      /\ partial.status = "thinking" <=> e.state = "delta"
      /\ partial.status = "active" <=> e.state # "delta"
      /\ e.state # "final" =>
           parsed.inputTokens = "none" /\ parsed.outputTokens = "none"
             /\ parsed.stopReason = "none"

C23_Witness ==
  /\ input.shape.event = "chat" /\ input.shape.state = "final"
  /\ parsed.type = "complete" /\ parsed.inputTokens = "counted" /\ parsed.stopReason = "stop"
  /\ partial = [key |-> "s1", status |-> "active"]

(* the action types C24 lists for an agent payload *)
ListedTypes(e) ==
  {type \in {"start", "complete", "streaming", "tool_call", "tool_result"} :
     \/ type = "start" /\ e.stream = "lifecycle" /\ e.phase = "start"
     \/ type = "complete" /\ e.stream = "lifecycle" /\ e.phase = "end"
     \/ type = "streaming" /\ e.stream = "assistant" /\ e.text # "none"
     \/ type = "tool_call" /\ e.dataType = "tool_use"
     \/ type = "tool_result" /\ e.dataType = "tool_result"}

(* C24: an agent frame yields an update only in the listed cases, with the *)
(* listed action type; every other agent payload, a lifecycle event whose  *)
(* phase is neither 'start' nor 'end' included, yields no update (null).   *)
C24_AgentCases ==
  LET e == input.shape IN
    parsed # NotCalled /\ e.event = "agent" /\ e.payload = "object" =>
      IF ListedTypes(e) = {} THEN parsed = NoAction /\ partial = NoSession
      ELSE parsed.type \in ListedTypes(e)

(* C22: an action produced from an event that carries no sessionKey is     *)
(* filed under the sessionKey learned earlier for its runId, and under      *)
(* 'unresolved' when none was learned; never under any other key.  The key  *)
(* an action is filed under is the sessionKey the normalizer gives it.      *)
C22_Step ==
  (connected /\ evSeq' = evSeq + 1 /\ calls' # <<>>) =>
    LET ev == handed'
        action == parseEventFrame(ev.shape, ev.runId, ev.seq)
    IN (action \notin {NoAction, Thrown} /\ ev.shape.sessionKey = "absent") =>
         action.sessionKey = IF resolveSessionKey(ev.runId) # "absent"
                             THEN resolveSessionKey(ev.runId)
                             ELSE "unresolved"

C22_FiledUnderLearnedKey == [][C22_Step]_vars

(* C26: parseEventFrame returns no update for the frames named 'health',    *)
(* 'tick' and 'presence', whatever their payload, and the reconnecting      *)
(* client hands each of them, unchanged, to every registered event          *)
(* listener.                                                                *)
SystemFrames == {ev \in PushedFrames : ev.shape.event \in {"health", "tick", "presence"}}

C26_Step(s, ev) ==
  (connected /\ RecvFrame(s, Behaviours, ev)) =>
    /\ parseEventFrame(ev.shape, ev.runId, ev.seq) = NoAction
    /\ \A l \in Listeners :
         (Registered(eventListeners, l) /\ Registered(eventListeners', l)) =>
           TimesCalled(calls', l) = 1 /\ handed' = ev

C26_SystemFramesDelivered ==
  [][\A s \in Sockets, ev \in SystemFrames : C26_Step(s, ev)]_vars

(* C27: the runId -> sessionKey map never shrinks: a dispatched chat or     *)
(* agent frame that carries a runId and a sessionKey makes                  *)
(* resolveSessionKey(runId) return that sessionKey, and no later event,     *)
(* request, response, timeout or status change removes a mapping.           *)
C27_Step ==
  /\ \A r \in RunIds : resolveSessionKey(r) # "absent" => resolveSessionKey(r)' # "absent"
  /\ \A s \in Sockets, ev \in LearnFrames :
       (/\ connected /\ RecvFrame(s, {Returns}, ev)
        /\ ev.shape.event \in {"chat", "agent"} /\ ev.shape.sessionKey # "absent") =>
         resolveSessionKey(ev.runId)' = ev.shape.sessionKey

C27_MapNeverShrinks == [][C27_Step]_vars

(* both runs resolved, and still do after a request timed out and the       *)
(* socket closed                                                            *)
C27_Witness ==
  /\ resolveSessionKey(<<"a">>) = "s1" /\ resolveSessionKey(<<"b">>) = "s2"
  /\ caller[1] = ReqRejected(1, "timed out")
  /\ rs[1] = "closed"

(* C25: the content of a chat action is the message verbatim when the       *)
(* message is a bare string; for a message whose content is a list of       *)
(* blocks it is the texts of the blocks of type 'text', concatenated in     *)
(* list order with no separator, and 'no content' (undefined, which is not  *)
(* the empty string) when the list holds no text block.                     *)
RECURSIVE TextBlocks(_)
TextBlocks(blocks) ==
  IF blocks = <<>> THEN <<>>
  ELSE IF Head(blocks).type = "text" THEN <<Head(blocks)>> \o TextBlocks(Tail(blocks))
  ELSE TextBlocks(Tail(blocks))

RECURSIVE Concatenation(_)
Concatenation(blocks) ==
  IF blocks = <<>> THEN <<>> ELSE Head(blocks).text \o Concatenation(Tail(blocks))

C25_TextExtraction ==
  LET message == input.message IN
    (parsed.called /\ ~input.errorMessage.defined) =>
      /\ message.kind = "string" => parsed.content = Content(message.text)
      /\ message.kind = "blocks" =>
           parsed.content = IF TextBlocks(message.content) = <<>> THEN NoContent
                            ELSE Content(Concatenation(TextBlocks(message.content)))

(* C28: parseSessionKey is total on strings, a missing token degrading to   *)
(* agentId or platform 'unknown', and it round-trips on every well-formed   *)
(* key agent:<agentId>:<platform>:<relationKind>:<recipient>: the parsed    *)
(* agentId and platform are the key's tokens 1 and 2 and 'agent', agentId,  *)
(* platform and the parsed recipient joined with ':' give the key back.     *)
C28_RoundTrip ==
  parsed.called =>
    /\ parsed.key.agentId # <<>> /\ parsed.key.platform # <<>>
    /\ Len(split(input, <<>>)) < 2 => parsed.key.agentId = <<"unknown">>
    /\ Len(split(input, <<>>)) < 3 => parsed.key.platform = <<"unknown">>
    /\ \A agentId \in Names, platform \in Names, kind \in RelationKinds,
          recipient \in Recipients :
         input = WellFormedKey(agentId, platform, kind, recipient) =>
           /\ parsed.key.agentId = agentId /\ parsed.key.platform = platform
           /\ join(<<<<"agent">>, parsed.key.agentId, parsed.key.platform,
                     parsed.key.recipient>>) = input

C28_Witness ==
  /\ input = WellFormedKey(<<"kev">>, <<"web", "chat">>, <<"dm">>, <<"u1", ":", "u2">>)
  /\ parsed.called
  /\ parsed.key.recipient = <<"dm", ":", "u1", ":", "u2">>

(* C29: over successive listings, a session without abort flag is          *)
(* 'working' only if its last update is less than 60 s old and its output   *)
(* tokens have increased since the previous listing; a recently updated     *)
(* session whose output tokens did not advance is 'idle'; otherwise it is   *)
(* 'idle' when the last update is less than 5 min old and 'stopped' when    *)
(* it is older.                                                             *)
Age == input.now - input.raw.updatedAt

(* raw.outputTokens || 0 (gateway-utils.ts:58): an absent counter counts 0 *)
Tokens(n) == IF n < 0 THEN 0 ELSE n

Advanced == Tokens(input.raw.outputTokens) > Tokens(input.before)

C29_ColdStartStatus ==
  (parsed.listings >= 2 /\ ~input.raw.abortedLastRun) =>
    parsed.status = CASE Age < 60000 /\ Advanced -> "working"
                      [] Age < 300000 -> "idle"
                      [] OTHER -> "stopped"

(* C30: parseGatewaySession gives 'error' to every listed session whose     *)
(* abort flag is set, whatever its updatedAt and token counters, and to no  *)
(* session whose abort flag is unset.                                       *)
C30_AbortForcesError ==
  parsed.listings > 0 => (parsed.status = "error" <=> input.raw.abortedLastRun)

(* a session updated just now whose output tokens advanced, aborted *)
C30_Witness ==
  /\ parsed.listings = 2 /\ parsed.status = "error"
  /\ input.raw.abortedLastRun /\ Age = 0
  /\ input.before = 1 /\ input.raw.outputTokens = 2

(* C31: the session list the views read after each refresh or pushed       *)
(* listing is in lexicographic order of the session keys, and two          *)
(* successive listings that hold the same set of session keys give the     *)
(* same order of keys whatever their updatedAt.                            *)
Rank(letter) == IF letter = "a" THEN 1 ELSE 2

RECURSIVE LexLess(_, _)
LexLess(k, l) ==
  IF k = <<>> THEN l # <<>>
  ELSE IF l = <<>> THEN FALSE
  ELSE IF Head(k) = Head(l) THEN LexLess(Tail(k), Tail(l))
  ELSE Rank(Head(k)) < Rank(Head(l))

KeysOf(sessions) == [i \in DOMAIN sessions |-> sessions[i].key]

KeySet(sessions) == {sessions[i].key : i \in DOMAIN sessions}

C31_OrderedByKey ==
  /\ \A i, j \in DOMAIN parsed.sessions :
       i < j => LexLess(parsed.sessions[i].key, parsed.sessions[j].key)
  /\ (parsed.listings >= 2 /\ KeySet(parsed.before) = KeySet(parsed.sessions)) =>
       KeysOf(parsed.before) = KeysOf(parsed.sessions)

(* C32: a session whose key marks it as a subagent and that arrives with   *)
(* no explicit parent reference gets as parent the non-subagent session    *)
(* whose latest action is the most recent one inside the 10 s before the   *)
(* arrival, and no parent when no non-subagent session has an action       *)
(* inside those 10 s.  The session arrives at time Now.                    *)
InWindow(session) ==
  /\ ~includes(session.id, "subagent")
  /\ session.lastAction >= 0
  /\ Now - session.lastAction <= 10000

Candidates == {i \in DOMAIN input.sessions : InWindow(input.sessions[i])}

MostRecent ==
  {input.sessions[i].id :
     i \in {c \in Candidates :
              \A o \in Candidates : input.sessions[o].lastAction <= input.sessions[c].lastAction}}

C32_ParentInsideWindow ==
  (/\ parsed.by # "nobody"
   /\ includes(input.raw.key, "subagent")
   /\ input.raw.parentSession = NoParent) =>
    IF Candidates = {} THEN parsed.parentSession = NoParent
    ELSE parsed.parentSession \in MostRecent

(* C33: once more than MaxChunks output chunks of a process have been fed, *)
(* the collection holds exactly the newest MaxChunks chunks of that        *)
(* process (a chunk is known by the seq of its frame).                     *)
FedSeqs(runId) == {input[i].seq : i \in {j \in DOMAIN input : input[j].runId = runId}}

Newest(seqs, m) == {n \in seqs : Cardinality({o \in seqs : o > n}) < m}

RetainedSeqs(runId) == {a.seq : a \in {r \in actions : r.runId = runId}}

C33_NewestChunksRetained ==
  \A runId \in RunIds :
    Cardinality(FedSeqs(runId)) > MaxChunks =>
      RetainedSeqs(runId) = Newest(FedSeqs(runId), MaxChunks)

(* C34: on each socket the handshake steps occur in protocol order: a      *)
(* connect Request goes out on a socket only once connect.challenge was    *)
(* received on that socket, and `connected` becomes true only when a       *)
(* Response with the id of a connect Request sent on the socket, ok:true    *)
(* and a hello-ok payload is received on it.                               *)
C34_RequestAfterChallenge ==
  \A s \in Sockets : connectSent'[s] > connectSent[s] => challenged'[s]

C34_Completes ==
  (connected' /\ ~connected) =>
    \E s \in Sockets, f \in ResFrames :
      /\ f.id = 0 /\ f.kind = "hello" /\ connectSent[s] > 0
      /\ RecvRes(s, f, TRUE)

C34_HandshakeOrder == [][C34_RequestAfterChallenge /\ C34_Completes]_vars

(* C35: a request() call made while `connected` is false allocates no id,   *)
(* adds no pending entry, starts no timer and sends no frame, in both      *)
(* clients: the call gets past its 'Not connected' guard only while        *)
(* `connected` is true.                                                    *)
C35_Step == Request(MaxReq) => connected

C35_MainStep == mainRequest => mConnected

C35_NotConnected == [][C35_Step /\ C35_MainStep]_vars

(* C36: once disconnect() has returned and until connect() is called       *)
(* again (this.ws is null and a socket had been created), no handler       *)
(* starts a connect attempt or schedules one, sets `connected` to true or  *)
(* broadcasts 'connecting' or 'connected', whatever still arrives from the *)
(* socket being closed.                                                    *)
Disconnected == ws = 0 /\ nSockets > 0

C36_Step ==
  (Disconnected /\ ~Connect(MaxSockets)) =>
    /\ ws' = 0 /\ ~reconnectTimer'
    /\ ~connected'
    /\ \A i \in DOMAIN emits' : emits'[i] \notin {"connecting", "connected"}

C36_StaysDisconnected == [][C36_Step]_vars

(* C37: an event frame is handed to the event listeners only if the socket *)
(* that delivered it has completed its handshake and is still the client's *)
(* current, open socket: not closed, not dropped by disconnect(), not      *)
(* superseded by a later connect().                                        *)
C37_Step(s) ==
  (RecvEvent(s, {Returns}) /\ calls' # <<>>) =>
    hs[s] /\ ws = s /\ rs[s] = "open"

C37_OnlyCurrentSocket == [][\A s \in Sockets : C37_Step(s)]_vars

(* C38: between callbacks, the status the registered listener received     *)
(* last is 'connected' exactly when the `connected` accessor is true.      *)
C38_StatusMatchesFlag == (lastStatus = "connected") <=> connected

(* C39: each request() promise is settled exactly once, by the Response    *)
(* carrying its id or by its own timeout, whichever happens first; the     *)
(* timer of a request that was already answered and a Response for an id   *)
(* that was already settled change nothing: no caller, no pending entry    *)
(* and nothing of the connection (both clients).                           *)
IsSettled(c) == c.st \in {"resolved", "rejected"}

requestState == <<pendingRequests, caller, connected, connecting, connectPromise, lastStatus>>

mainRequestState == <<mPending, mCaller, mConnected, mConnectPromise>>

C39_Once ==
  /\ \A id \in ReqIds : IsSettled(caller[id]) => caller'[id] = caller[id]
  /\ \A n \in MIds : IsSettled(mCaller[n]) => mCaller'[n] = mCaller[n]

C39_First ==
  /\ \A s \in Sockets, f \in ResFrames :
       (f.id \in pendingRequests /\ caller[f.id] = ReqPending /\ RecvRes(s, f, TRUE)) =>
         IsSettled(caller'[f.id]) /\ f.id \notin pendingRequests'
  /\ \A id \in ReqIds :
       (id \in pendingRequests /\ RequestTimeout(id)) =>
         caller'[id] = ReqRejected(id, "timed out") /\ id \notin pendingRequests'
  /\ \A s \in MSockets, f \in MainFrames :
       (/\ idNum(f.id) \in mPending /\ mEntry[idNum(f.id)] = 0
        /\ mCaller[idNum(f.id)] = ReqPending /\ MainRecvRes(s, f, TRUE)) =>
         IsSettled(mCaller'[idNum(f.id)]) /\ idNum(f.id) \notin mPending'
  /\ \A n \in MIds :
       (n \in mPending /\ mEntry[n] = 0 /\ mCaller[n] = ReqPending /\ MainRequestTimeout(n)) =>
         mCaller'[n] = ReqRejected(n, "timed out") /\ n \notin mPending'

C39_Late ==
  /\ \A id \in ReqIds :
       (IsSettled(caller[id]) /\ RequestTimeout(id)) => UNCHANGED requestState
  /\ \A s \in Sockets, f \in ResFrames :
       (f.id \in ReqIds /\ IsSettled(caller[f.id]) /\ RecvRes(s, f, FALSE)) =>
         UNCHANGED requestState
  /\ \A n \in MIds :
       (IsSettled(mCaller[n]) /\ MainRequestTimeout(n)) => UNCHANGED mainRequestState
  /\ \A s \in MSockets, f \in MainFrames :
       (idNum(f.id) \in MIds /\ IsSettled(mCaller[idNum(f.id)]) /\ MainRecvRes(s, f, FALSE)) =>
         UNCHANGED mainRequestState

C39_SettledOnce == [][C39_Once /\ C39_First /\ C39_Late]_vars

(* C40: the handle returned by an onEvent() call removes the registration  *)
(* that call made and no other one, also when the same callback was        *)
(* registered twice, and calling it again changes nothing: the listener    *)
(* array holds, in registration order, the callbacks of exactly the        *)
(* registrations whose handle has not been called.                         *)
RECURSIVE Remaining(_)
Remaining(r) ==
  IF r > Len(input) THEN <<>>
  ELSE (IF r \in partial THEN <<>> ELSE <<input[r]>>) \o Remaining(r + 1)

C40_OwnRegistrationOnly == eventListeners = Remaining(1)

====
